---- MODULE Spec2Model ----
(***************************************************************************)
(* A model of the battle game's turn queue (BattleQueue and                *)
(* RestrictedBattleQueue), of the skills that act on it, and of the        *)
(* state scorer and the two minimax playstyles, and of the skill decision  *)
(* tree.                                                                   *)
(*                                                                         *)
(* Objects live in a heap: h.a maps actor ids to Character objects and     *)
(* h.q maps queue ids to queue objects.  Queue k owns the actors 2k-1 and  *)
(* 2k.  A reference is an id, so that "the same object" (Python's default  *)
(* ==) is equality of ids, and a copy is a new object with a new id.       *)
(***************************************************************************)
EXTENDS Integers, Sequences, FiniteSets, TLC

VARIABLES heap, last, copyOps, result, nodes, stack, ipc, sdt, answer

vars == <<heap, last, copyOps, result, nodes, stack, ipc, sdt, answer>>

\* the variables of the search machine, those of the queue machine and those
\* of the decision tree
searchVars == <<result, nodes, stack, ipc>>
queueVars == <<last, copyOps>>
treeVars == <<sdt, answer>>

None == 0

Max2(a, b) == IF a >= b THEN a ELSE b

\* a statement that binds the value x to a name, followed by the statements
\* F that use the name
Bind(x, F(_)) == F(x)

(***************************************************************************)
(* Bounds of the model.                                                    *)
(***************************************************************************)
\* the longest ticket list the queue machine builds
MaxLen == 3
\* the most calls the queue machine makes on one copy of the queue
MaxCopyOps == 1
\* the longest ticket list of a position handed to the search
MaxStart == 2

\* remove() calls that follow them
MaxRemoved == 1
\* the most nodes of a skill decision tree
MaxNodes == 3

(***************************************************************************)
(* Skills (a2_skills.py).                                                  *)
(***************************************************************************)
Kinds == {"Rogue", "Mage"}

\* Skill.get_sp_cost for the skill a character kind uses for an action
SkillCost(kind, action) ==
    CASE kind = "Rogue" /\ action = "A" -> 3
      [] kind = "Rogue" /\ action = "S" -> 10
      [] kind = "Mage" /\ action = "A" -> 5
      [] kind = "Mage" /\ action = "S" -> 30
      [] kind = "Vampire" /\ action = "A" -> 15
      [] kind = "Vampire" /\ action = "S" -> 20
      [] kind = "Sorcerer" /\ action = "A" -> 15
      [] kind = "Sorcerer" /\ action = "S" -> 20

\* Skill._damage
SkillDamage(kind, action) ==
    CASE kind = "Rogue" /\ action = "A" -> 15
      [] kind = "Rogue" /\ action = "S" -> 20
      [] kind = "Mage" /\ action = "A" -> 20
      [] kind = "Mage" /\ action = "S" -> 40
      [] kind = "Vampire" /\ action = "A" -> 20
      [] kind = "Vampire" /\ action = "S" -> 30
      [] kind = "Sorcerer" /\ action = "A" -> 0
      [] kind = "Sorcerer" /\ action = "S" -> 25

\* the tickets a skill's use() adds after dealing its damage, in order
SkillAdds(kind, action) ==
    CASE kind = "Rogue" /\ action = "A" -> <<"caster">>
      [] kind = "Rogue" /\ action = "S" -> <<"caster", "caster">>
      [] kind = "Mage" /\ action = "A" -> <<"caster">>
      [] kind = "Mage" /\ action = "S" -> <<"target", "caster">>
      [] kind = "Vampire" /\ action = "A" -> <<"caster">>
      [] kind = "Vampire" /\ action = "S" -> <<"caster", "caster", "target">>

\* VampireAttack and VampireSpecial give the damage dealt back to the caster
SkillDrains(kind) == kind = "Vampire"

(***************************************************************************)
(* Characters.                                                             *)
(***************************************************************************)
Defense(kind) ==
    CASE kind = "Rogue" -> 10
      [] kind = "Mage" -> 8
      [] kind = "Vampire" -> 3

\* Character.get_available_actions: the actions the character has the SP for
get_available_actions(h, c) ==
    (IF h.a[c].sp >= SkillCost(h.a[c].kind, "A") THEN <<"A">> ELSE <<>>)
    \o (IF h.a[c].sp >= SkillCost(h.a[c].kind, "S") THEN <<"S">> ELSE <<>>)

\* Character.reduce_sp
reduce_sp(h, c, cost) == [h EXCEPT !.a[c].sp = @ - cost]

\* Character.set_hp: HP never drops below 0
set_hp(h, c, hp) == [h EXCEPT !.a[c].hp = Max2(hp, 0)]

\* Character.apply_damage: the damage less the defense
apply_damage(h, c, damage) ==
    set_hp(h, c, h.a[c].hp - Max2(damage - Defense(h.a[c].kind), 0))

(***************************************************************************)
(* BattleQueue and RestrictedBattleQueue (a2_battle_queue.py).             *)
(***************************************************************************)
\* BattleQueue.__init__ / RestrictedBattleQueue.__init__
NewQueue(restricted) ==
    [content |-> <<>>, add_status |-> <<>>, p1 |-> None, p2 |-> None,
     restricted |-> restricted, added |-> {}]

\* an if in place of the while: at most one ticket is dropped
DropDead_once(h, s) ==
    IF s # <<>> /\ get_available_actions(h, Head(s)) = <<>>
    THEN Tail(s)
    ELSE s

\* every ticket of a character with no available action is dropped, not
\* only the leading ones
DropDead_all(h, s) ==
    SelectSeq(s, LAMBDA c : get_available_actions(h, c) # <<>>)

RECURSIVE DropDead(_, _)
\* the while loop of BattleQueue._clean_queue
DropDead(h, s) ==
    IF s # <<>> /\ get_available_actions(h, Head(s)) = <<>>
    THEN DropDead(h, Tail(s))
    ELSE s

\* BattleQueue._clean_queue
BQ_clean_queue(h, q) == [h EXCEPT !.q[q].content = DropDead(h, @)]

\* lst[:n] in place of lst[-n:]: the first n elements
LastN_first(s, n) == SubSeq(s, 1, n)

\* lst[-n:] of Python, for n >= 1
LastN(s, n) == SubSeq(s, Max2(Len(s) - n + 1, 1), Len(s))

\* RestrictedBattleQueue._clean_queue with no care of the bit list
RBQ_clean_queue_bits_kept(h, q) == BQ_clean_queue(h, q)

\* RestrictedBattleQueue._clean_queue
RBQ_clean_queue(h, q) ==
    LET h1 == BQ_clean_queue(h, q)
    IN  IF h1.q[q].content = <<>>
        THEN [h1 EXCEPT !.q[q].add_status = <<>>]
        ELSE [h1 EXCEPT !.q[q].add_status = LastN(@, Len(h1.q[q].content))]

\* self._clean_queue(), dispatched on the class of the queue
clean_queue(h, q) ==
    IF h.q[q].restricted THEN RBQ_clean_queue(h, q) ELSE BQ_clean_queue(h, q)

\* the players set by every add, not only by the first
SetPlayers_always(h, q, c) ==
    [h EXCEPT !.q[q].added = @ \cup {c},
              !.q[q].p1 = c, !.q[q].p2 = h.a[c].enemy]

\* the first lines of both add methods: the first add fixes the players.
\* The field added is history, not program state: the characters add() was
\* ever called with on this queue.
SetPlayers(h, q, c) ==
    LET h0 == [h EXCEPT !.q[q].added = @ \cup {c}]
    IN  IF h0.q[q].p1 = None
        THEN [h0 EXCEPT !.q[q].p1 = c, !.q[q].p2 = h.a[c].enemy]
        ELSE h0

\* BattleQueue.add
BQ_add(h, q, c) ==
    SetPlayers([h EXCEPT !.q[q].content = Append(@, c)], q, c)

\* RestrictedBattleQueue.get_add_ability_count
get_add_ability_count(h, q, c) ==
    Cardinality({i \in 1..Len(h.q[q].content) :
                    /\ h.q[q].content[i] = c
                    /\ i <= Len(h.q[q].add_status)
                    /\ h.q[q].add_status[i]})

\* self._content.append(character); self._add_status.append(flag)
AppendTicket(h, q, c, flag) ==
    [h EXCEPT !.q[q].content = Append(@, c),
              !.q[q].add_status = Append(@, flag)]

\* the limit on the tickets of one character that can add
AddAbilityLimit == 2

\* RBQ_add_self with the limit compared by > instead of >=
RBQ_add_self_late(h, q, c) ==
    IF get_add_ability_count(h, q, c) > AddAbilityLimit
    THEN AppendTicket(h, q, c, FALSE)
    ELSE AppendTicket(h, q, c, TRUE)

\* the branch of RestrictedBattleQueue.add taken when the front ticket can
\* add and belongs to the character being added
RBQ_add_self(h, q, c) ==
    IF get_add_ability_count(h, q, c) >= AddAbilityLimit
    THEN AppendTicket(h, q, c, FALSE)
    ELSE AppendTicket(h, q, c, TRUE)

\* the test of RestrictedBattleQueue.add for a first addition: no ticket of
\* the character is in the queue now
exist_count(h, q, c) ==
    Cardinality({i \in 1..Len(h.q[q].content) : h.q[q].content[i] = c})

\* RBQ_add where only an empty queue accepts a first addition as such
RBQ_add_no_bootstrap(h, q, c) ==
    LET h1 == SetPlayers(h, q, c)
    IN  IF h1.q[q].content = <<>>
        THEN AppendTicket(h1, q, c, TRUE)
        ELSE IF h1.q[q].add_status[1]
             THEN IF h1.q[q].content[1] = c
                  THEN RBQ_add_self(h1, q, c)
                  ELSE AppendTicket(h1, q, c, FALSE)
             ELSE h1

\* RestrictedBattleQueue.add
RBQ_add(h, q, c) ==
    LET h1 == SetPlayers(h, q, c)
    IN  IF exist_count(h1, q, c) = 0
        THEN AppendTicket(h1, q, c, TRUE)
        ELSE IF h1.q[q].add_status[1]
             THEN IF h1.q[q].content[1] = c
                  THEN RBQ_add_self(h1, q, c)
                  ELSE AppendTicket(h1, q, c, FALSE)
             ELSE h1

\* battle_queue.add(character), dispatched on the class of the queue
add(h, q, c) == IF h.q[q].restricted THEN RBQ_add(h, q, c) ELSE BQ_add(h, q, c)

\* BattleQueue.is_empty: the heap after the call and the value returned
is_empty(h, q) ==
    Bind(clean_queue(h, q), LAMBDA h1 :
    [h |-> h1, ret |-> (h1.q[q].content = <<>>)])

\* peek that takes the ticket it returns out of the queue
peek_pop(h, q) ==
    Bind(clean_queue(h, q), LAMBDA h1 :
    IF h1.q[q].content = <<>> THEN [h |-> h1, ret |-> h1.q[q].p1] ELSE
    [h |-> [h1 EXCEPT !.q[q].content = Tail(@),
                      !.q[q].add_status = IF @ = <<>> THEN @ ELSE Tail(@)],
     ret |-> h1.q[q].content[1]])

\* BattleQueue.peek; with no ticket left the first player (None on a queue
\* nothing was added to)
peek(h, q) ==
    Bind(clean_queue(h, q), LAMBDA h1 :
    [h |-> h1,
     ret |-> IF h1.q[q].content # <<>> THEN h1.q[q].content[1]
             ELSE h1.q[q].p1])

\* remove that pops the front ticket without cleaning the queue first
remove_no_clean(h, q) ==
    IF h.q[q].content = <<>>
    THEN [h |-> h, ret |-> None, err |-> "IndexError"]
    ELSE [h |-> [h EXCEPT !.q[q].content = Tail(@),
                          !.q[q].add_status =
                              IF @ = <<>> THEN @ ELSE Tail(@)],
          ret |-> h.q[q].content[1], err |-> "none"]

\* BattleQueue.remove and RestrictedBattleQueue.remove: pop(0) of an empty
\* list raises IndexError, and nothing is popped
remove(h, q) ==
    Bind(clean_queue(h, q), LAMBDA h1 :
    IF h1.q[q].restricted
    THEN IF h1.q[q].add_status = <<>>
         THEN [h |-> h1, ret |-> None, err |-> "IndexError"]
         ELSE LET h2 == [h1 EXCEPT !.q[q].add_status = Tail(@)]
              IN  IF h2.q[q].content = <<>>
                  THEN [h |-> h2, ret |-> None, err |-> "IndexError"]
                  ELSE [h |-> [h2 EXCEPT !.q[q].content = Tail(@)],
                        ret |-> h2.q[q].content[1], err |-> "none"]
    ELSE IF h1.q[q].content = <<>>
         THEN [h |-> h1, ret |-> None, err |-> "IndexError"]
         ELSE [h |-> [h1 EXCEPT !.q[q].content = Tail(@)],
               ret |-> h1.q[q].content[1], err |-> "none"])

\* is_over that does not look at player 2
is_over_p1_only(h, q) ==
    Bind(is_empty(h, q), LAMBDA e :
    IF e.ret THEN [h |-> e.h, ret |-> TRUE]
    ELSE [h |-> e.h, ret |-> (e.h.a[e.h.q[q].p1].hp = 0)])

\* BattleQueue.is_over
is_over(h, q) ==
    Bind(is_empty(h, q), LAMBDA e :
    IF e.ret THEN [h |-> e.h, ret |-> TRUE]
    ELSE [h |-> e.h,
          ret |-> (e.h.a[e.h.q[q].p1].hp = 0 \/ e.h.a[e.h.q[q].p2].hp = 0)])

\* BattleQueue.get_winner; on a queue nothing was added to, self._p1 is None
\* and self._p1.get_hp() raises AttributeError
get_winner(h, q) ==
    Bind(is_over(h, q), LAMBDA o :
    IF ~o.ret THEN [h |-> o.h, ret |-> None, err |-> "none"]
    ELSE IF o.h.q[q].p1 = None
         THEN [h |-> o.h, ret |-> None, err |-> "AttributeError"]
    ELSE IF o.h.a[o.h.q[q].p1].hp = 0
         THEN [h |-> o.h, ret |-> o.h.q[q].p2, err |-> "none"]
    ELSE IF o.h.a[o.h.q[q].p2].hp = 0
         THEN [h |-> o.h, ret |-> o.h.q[q].p1, err |-> "none"]
    ELSE [h |-> o.h, ret |-> None, err |-> "none"])

(***************************************************************************)
(* Using a skill (a2_skills.py) and the character methods that do so.      *)
(***************************************************************************)
\* Skill._deal_damage of the skill a character of kind uses for action
Skill_deal_damage(h, kind, action, caster, target) ==
    apply_damage(reduce_sp(h, caster, SkillCost(kind, action)),
                 target, SkillDamage(kind, action))

\* Skill._deal_damage of the caster's own skill for action
deal_damage(h, caster, target, action) ==
    Skill_deal_damage(h, h.a[caster].kind, action, caster, target)

RECURSIVE AddAll(_, _, _, _)
\* the caster.battle_queue.add(...) calls that end a skill's use()
AddAll(h, caster, target, who) ==
    IF who = <<>> THEN h
    ELSE AddAll(add(h, h.a[caster].bq,
                    IF Head(who) = "caster" THEN caster ELSE target),
                caster, target, Tail(who))

\* use(caster, target) of NormalAttack, MageSpecial, RogueSpecial,
\* VampireAttack and VampireSpecial: of the skill a character of kind uses
\* for action, whoever the caster is
Skill_use(h, kind, action, caster, target) ==
    LET target_hp == h.a[target].hp
        h1 == Skill_deal_damage(h, kind, action, caster, target)
        h2 == IF SkillDrains(kind)
              THEN set_hp(h1, caster,
                          h1.a[caster].hp + target_hp - h1.a[target].hp)
              ELSE h1
    IN  AddAll(h2, caster, target, SkillAdds(kind, action))

\* use(caster, target) of the caster's own skill for action
use(h, caster, target, action) ==
    Skill_use(h, h.a[caster].kind, action, caster, target)

\* Character.attack, of a Rogue, a Mage or a Vampire
attack(h, c) == use(h, c, h.a[c].enemy, "A")

\* Character.special_attack, of a Rogue, a Mage or a Vampire
special_attack(h, c) == use(h, c, h.a[c].enemy, "S")

RECURSIVE Drain(_, _, _)
\* the first while loop of SorcererSpecial.use; ret is temp_list
Drain(h, q, temp_list) ==
    Bind(is_empty(h, q), LAMBDA e :
    IF e.ret THEN [h |-> e.h, ret |-> temp_list] ELSE
    Bind(remove(e.h, q), LAMBDA r :
    Drain(r.h, q,
          IF \E i \in 1..Len(temp_list) : temp_list[i] = r.ret
          THEN temp_list ELSE Append(temp_list, r.ret))))

RECURSIVE AddEach(_, _, _)
\* the second while loop of SorcererSpecial.use
AddEach(h, q, temp_list) ==
    IF temp_list = <<>> THEN h
    ELSE AddEach(add(h, q, Head(temp_list)), q, Tail(temp_list))

\* SorcererSpecial.use with the SP cost and the damage applied first
SorcererSpecial_use_cost_first(h, caster, target) ==
    Bind(deal_damage(h, caster, target, "S"), LAMBDA h1 :
    Bind(Drain(h1, h1.a[caster].bq, <<>>), LAMBDA d :
    add(AddEach(d.h, h.a[caster].bq, d.ret), h.a[caster].bq, caster)))

\* SorcererSpecial.use
SorcererSpecial_use(h, caster, target) ==
    Bind(Drain(h, h.a[caster].bq, <<>>), LAMBDA d :
    deal_damage(add(AddEach(d.h, h.a[caster].bq, d.ret),
                    h.a[caster].bq, caster),
                caster, target, "S"))

\* Character.copy(new_battle_queue): a new character of the same kind with
\* the same HP and SP, bound to the new queue, with no enemy yet
CharacterCopy(h, c, new_id, new_bq) ==
    [h EXCEPT !.a = (new_id :> [h.a[c] EXCEPT !.bq = new_bq, !.enemy = None])
                    @@ h.a]

(***************************************************************************)
(* copy() of both queue classes.  The new queue is object dst and the      *)
(* copies of the players are the objects 2*dst-1 and 2*dst.                *)
(***************************************************************************)
P1Copy(dst) == 2 * dst - 1
P2Copy(dst) == 2 * dst

\* CopyTicket adding the source's own character instead of its copy
CopyTicket_shallow(h, src, dst, character) == character

\* CopyTicket with the two players exchanged
CopyTicket_swapped(h, src, dst, character) ==
    IF character = h.q[src].p1 THEN P2Copy(dst) ELSE P1Copy(dst)

\* the ticket the loop of copy() adds for a ticket of the source
CopyTicket(h, src, dst, character) ==
    IF character = h.q[src].p1 THEN P1Copy(dst) ELSE P2Copy(dst)

RECURSIVE CopyTickets(_, _, _, _)
\* the loop of copy() over self._content
CopyTickets(h, src, dst, rest) ==
    IF rest = <<>> THEN h
    ELSE CopyTickets(add(h, dst, CopyTicket(h, src, dst, Head(rest))),
                     src, dst, Tail(rest))

\* BattleQueue.copy and RestrictedBattleQueue.copy (they differ in the class
\* of the new queue only).  On a queue nothing was added to, self._p1 is
\* None and self._p1.copy raises AttributeError.
copy(h, src, dst) ==
    IF h.q[src].p1 = None \/ h.q[src].p2 = None
    THEN [h |-> h, ret |-> None, err |-> "AttributeError"]
    ELSE
    LET h0 == [h EXCEPT !.q = (dst :> NewQueue(h.q[src].restricted)) @@ h.q]
        h1 == CharacterCopy(h0, h.q[src].p1, P1Copy(dst), dst)
        h2 == CharacterCopy(h1, h.q[src].p2, P2Copy(dst), dst)
        h3 == [h2 EXCEPT !.a[P1Copy(dst)].enemy = P2Copy(dst),
                         !.a[P2Copy(dst)].enemy = P1Copy(dst)]
        h4 == add(h3, dst, P1Copy(dst))
    IN  [h |-> CopyTickets(Bind(is_empty(h4, dst), LAMBDA e :
                                IF ~e.ret THEN remove(e.h, dst).h ELSE e.h),
                           src, dst, h.q[src].content),
         ret |-> dst, err |-> "none"]

(***************************************************************************)
(* The state scorer and the recursive minimax playstyle (a2_playstyle.py). *)
(* Every operator takes the heap and returns the heap after the call, the  *)
(* value returned and the exception raised ("none" when the call returns). *)
(* free is the id of the next queue object: a queue made at a call depth   *)
(* takes the id that the queue made there before, now garbage, had.        *)
(***************************************************************************)
Ret(h, ret, err) == [h |-> h, ret |-> ret, err |-> err]

\* -sys.maxsize, written in the 32 bits of the model checker's integers:
\* less than every score
MinusMaxsize == -2147483647

\* min() in place of max()
MaxOf_least(scores) ==
    CHOOSE m \in {scores[i] : i \in 1..Len(scores)} :
        \A i \in 1..Len(scores) : m <= scores[i]

\* max() of a non-empty list of scores
MaxOf(scores) ==
    CHOOSE m \in {scores[i] : i \in 1..Len(scores)} :
        \A i \in 1..Len(scores) : scores[i] <= m

\* the current player performs the action; if it can still act, its ticket
\* at the front is removed
ActAndRemove(h, bq, current_player, action) ==
    Bind(IF action = "A" THEN attack(h, current_player)
         ELSE special_attack(h, current_player), LAMBDA h1 :
    IF get_available_actions(h1, current_player) # <<>>
    THEN remove(h1, bq)
    ELSE Ret(h1, None, "none"))

\* TerminalScore without the sign: the HP of the winner whoever it is
TerminalScore_unsigned(h, bq, orignal_player) ==
    Bind(get_winner(h, bq), LAMBDA w :
    IF w.err # "none" THEN Ret(w.h, 0, w.err)
    ELSE IF w.ret = None THEN Ret(w.h, 0, "none")
    ELSE Ret(w.h, w.h.a[w.ret].hp, "none"))

\* the score of a state that is over, for orignal_player
TerminalScore(h, bq, orignal_player) ==
    Bind(get_winner(h, bq), LAMBDA w :
    IF w.err # "none" THEN Ret(w.h, 0, w.err)
    ELSE IF w.ret = None THEN Ret(w.h, 0, "none")
    ELSE IF orignal_player = w.ret THEN Ret(w.h, w.h.a[w.ret].hp, "none")
    ELSE Ret(w.h, -w.h.a[w.ret].hp, "none"))

\* the copy's front character taken for orignal_player whoever is at the
\* front of the source
SamePlayer_front(h, orignal_player, bq, current_player) ==
    Bind(peek(h, bq), LAMBDA pk : Ret(pk.h, current_player, "none"))

\* which character of the copy stands for orignal_player: the copy's front
\* character if orignal_player is at the front of the source, else its enemy
\* (the source is inspected by peek(), which cleans it)
SamePlayer(h, orignal_player, bq, current_player) ==
    Bind(peek(h, bq), LAMBDA pk :
    Ret(pk.h,
        IF orignal_player = pk.ret THEN current_player
        ELSE pk.h.a[current_player].enemy,
        "none"))

\* the body of the for loops of get_state_score_player and of
\* get_children_nodes up to the move: a copy is made, the player the
\* score is for is found in it, and the copy's front character performs the
\* action.  The copy is made of src, which is bq itself or a copy of it.
\* ret.bq is the copy and ret.player the player found.
Successor(h, orignal_player, bq, src, free, action) ==
    Bind(copy(h, src, free), LAMBDA t :
    IF t.err # "none" THEN Ret(t.h, None, t.err) ELSE
    Bind(peek(t.h, t.ret), LAMBDA cp :
    Bind(SamePlayer(cp.h, orignal_player, bq, cp.ret), LAMBDA sp :
    Bind(ActAndRemove(sp.h, t.ret, cp.ret, action), LAMBDA m :
    Ret(m.h, [bq |-> t.ret, player |-> sp.ret], m.err)))))

RECURSIVE get_state_score_player(_, _, _, _)
RECURSIVE ScoreActions(_, _, _, _, _, _)

\* the for loop of get_state_score_player; ret is the list scores
ScoreActions(h, orignal_player, bq, free, actions, scores) ==
    IF actions = <<>> THEN Ret(h, scores, "none") ELSE
    Bind(Successor(h, orignal_player, bq, bq, free, Head(actions)),
         LAMBDA m :
    IF m.err # "none" THEN Ret(m.h, scores, m.err) ELSE
    Bind(get_state_score_player(m.h, m.ret.player, m.ret.bq, free + 1),
         LAMBDA r :
    IF r.err # "none" THEN Ret(r.h, scores, r.err) ELSE
    ScoreActions(r.h, orignal_player, bq, free, Tail(actions),
                 Append(scores, r.ret))))

\* get_state_score_player
get_state_score_player(h, orignal_player, bq, free) ==
    Bind(is_over(h, bq), LAMBDA o :
    IF o.ret THEN TerminalScore(o.h, bq, orignal_player) ELSE
    Bind(peek(o.h, bq), LAMBDA p :
    Bind(ScoreActions(p.h, orignal_player, bq, free,
                      get_available_actions(p.h, p.ret), <<>>), LAMBDA s :
    IF s.err # "none" THEN Ret(s.h, 0, s.err)
    ELSE IF s.ret = <<>> THEN Ret(s.h, 0, "ValueError")
    ELSE Ret(s.h, MaxOf(s.ret), "none"))))

\* get_state_score scoring the queue it was given instead of a copy of it
get_state_score_in_place(h, battle_queue, free) ==
    IF h.q[battle_queue].p1 = None THEN Ret(h, 0, "AttributeError") ELSE
    Bind(peek(h, battle_queue), LAMBDA p :
    get_state_score_player(p.h, p.ret, battle_queue, free))

\* get_state_score
get_state_score(h, battle_queue, free) ==
    Bind(copy(h, battle_queue, free), LAMBDA c :
    IF c.err # "none" THEN Ret(c.h, 0, c.err) ELSE
    Bind(peek(c.h, c.ret), LAMBDA p :
    get_state_score_player(p.h, p.ret, c.ret, free + 1)))

\* the body of the for loop of MinimaxRecursivePlaystyle.select_attack for
\* one action; ret is highest_score and the score of the action
RecTry(h, battle_queue, free, action) ==
    Bind(copy(h, battle_queue, free), LAMBDA t :
    IF t.err # "none" THEN Ret(t.h, <<0, 0>>, t.err) ELSE
    Bind(get_state_score(t.h, t.ret, free + 1), LAMBDA g :
    IF g.err # "none" THEN Ret(g.h, <<0, 0>>, g.err) ELSE
    Bind(peek(g.h, t.ret), LAMBDA cp :
    Bind(ActAndRemove(cp.h, t.ret, cp.ret, action), LAMBDA m :
    IF m.err # "none" THEN Ret(m.h, <<0, 0>>, m.err) ELSE
    Bind(get_state_score_player(m.h, cp.ret, t.ret, free + 1), LAMBDA r :
    Ret(r.h, <<g.ret, r.ret>>, r.err))))))

RECURSIVE RecLoop(_, _, _, _, _)
\* the for loop of MinimaxRecursivePlaystyle.select_attack; acc holds
\* highest_score, score_attack and score_special_attack
RecLoop(h, battle_queue, free, actions, acc) ==
    IF actions = <<>> THEN Ret(h, acc, "none") ELSE
    Bind(RecTry(h, battle_queue, free, Head(actions)), LAMBDA r :
    IF r.err # "none" THEN Ret(r.h, acc, r.err) ELSE
    RecLoop(r.h, battle_queue, free, Tail(actions),
            IF Head(actions) = "A"
            THEN [acc EXCEPT !.highest = r.ret[1], !.attack = r.ret[2]]
            ELSE [acc EXCEPT !.highest = r.ret[1], !.special = r.ret[2]]))

\* select_attack_recursive that compares the special attack first
select_attack_special_first(h, battle_queue, free) ==
    Bind(peek(h, battle_queue), LAMBDA p :
    IF p.ret = None THEN Ret(p.h, "X", "AttributeError")
    ELSE IF get_available_actions(p.h, p.ret) = <<>>
         THEN Ret(p.h, "X", "none") ELSE
    Bind(RecLoop(p.h, battle_queue, free, get_available_actions(p.h, p.ret),
                 [highest |-> MinusMaxsize, attack |-> MinusMaxsize,
                  special |-> MinusMaxsize]), LAMBDA l :
    IF l.err # "none" THEN Ret(l.h, "X", l.err)
    ELSE IF l.ret.highest = l.ret.special THEN Ret(l.h, "S", "none")
    ELSE IF l.ret.highest = l.ret.attack THEN Ret(l.h, "A", "none")
    ELSE Ret(l.h, "X", "none")))

\* select_attack_recursive without the comparison of the special attack
select_attack_attack_only(h, battle_queue, free) ==
    Bind(peek(h, battle_queue), LAMBDA p :
    IF p.ret = None THEN Ret(p.h, "X", "AttributeError")
    ELSE IF get_available_actions(p.h, p.ret) = <<>>
         THEN Ret(p.h, "X", "none") ELSE
    Bind(RecLoop(p.h, battle_queue, free, get_available_actions(p.h, p.ret),
                 [highest |-> MinusMaxsize, attack |-> MinusMaxsize,
                  special |-> MinusMaxsize]), LAMBDA l :
    IF l.err # "none" THEN Ret(l.h, "X", l.err)
    ELSE IF l.ret.highest = l.ret.attack THEN Ret(l.h, "A", "none")
    ELSE Ret(l.h, "X", "none")))

\* MinimaxRecursivePlaystyle.select_attack; on a queue nothing was added to,
\* peek() returns None and None.get_available_actions raises AttributeError
select_attack_recursive(h, battle_queue, free) ==
    Bind(peek(h, battle_queue), LAMBDA p :
    IF p.ret = None THEN Ret(p.h, "X", "AttributeError")
    ELSE IF get_available_actions(p.h, p.ret) = <<>>
         THEN Ret(p.h, "X", "none") ELSE
    Bind(RecLoop(p.h, battle_queue, free, get_available_actions(p.h, p.ret),
                 [highest |-> MinusMaxsize, attack |-> MinusMaxsize,
                  special |-> MinusMaxsize]), LAMBDA l :
    IF l.err # "none" THEN Ret(l.h, "X", l.err)
    ELSE IF l.ret.highest = l.ret.attack THEN Ret(l.h, "A", "none")
    ELSE IF l.ret.highest = l.ret.special THEN Ret(l.h, "S", "none")
    ELSE Ret(l.h, "X", "none")))

(***************************************************************************)
(* The iterative minimax playstyle: its tree of GameStateNode objects.     *)
(* nodes is the list of the nodes made, a node is named by its index in    *)
(* it.  A node's children is None until the node is expanded (expanded)    *)
(* and its highest_score is None until it is set (scored).                 *)
(***************************************************************************)
\* GameStateNode.__init__
GameStateNode(bq, player, action) ==
    [battle_queue |-> bq, current_player |-> player, action_taken |-> action,
     highest_score |-> 0, scored |-> FALSE,
     children |-> <<>>, expanded |-> FALSE]

\* the id of a queue object no object has
NextFree(h) == (CHOOSE k \in DOMAIN h.q : \A j \in DOMAIN h.q : j <= k) + 1

\* the heap without the objects that are garbage: the queues keep and
\* their characters stay
Retain(h, keep) ==
    [a |-> [c \in {x \in DOMAIN h.a : (x + 1) \div 2 \in keep} |-> h.a[c]],
     q |-> [k \in DOMAIN h.q \cap keep |-> h.q[k]]]

RECURSIVE ChildNodes(_, _, _, _, _, _)
\* the for loop of get_children_nodes; ret is the list children_nodes
ChildNodes(h, parent_node, bq_copy, free, actions, children_nodes) ==
    IF actions = <<>> THEN Ret(h, children_nodes, "none") ELSE
    Bind(Successor(h, parent_node.current_player, parent_node.battle_queue,
                   bq_copy, free, Head(actions)), LAMBDA m :
    IF m.err # "none" THEN Ret(m.h, children_nodes, m.err) ELSE
    ChildNodes(m.h, parent_node, bq_copy, free + 1, Tail(actions),
               Append(children_nodes,
                      GameStateNode(m.ret.bq, m.ret.player, Head(actions)))))

\* the most actions a character has
MaxActions == 2

\* MinimaxIterativePlaystyle.get_children_nodes; bq_copy is garbage when
\* it returns
get_children_nodes(h, parent_node) ==
    Bind(copy(h, parent_node.battle_queue, NextFree(h) + MaxActions),
         LAMBDA c :
    IF c.err # "none" THEN Ret(c.h, <<>>, c.err) ELSE
    Bind(peek(c.h, c.ret), LAMBDA p :
    Bind(ChildNodes(p.h, parent_node, c.ret, NextFree(h),
                    get_available_actions(p.h, p.ret), <<>>), LAMBDA r :
    Ret(Retain(r.h, DOMAIN r.h.q \ {c.ret}), r.ret, r.err))))

\* the loop that ends select_attack: the action of the first child of the
\* root whose score is the root's; iterating over children that is None
\* raises TypeError
RootChoice(ns) ==
    IF ~ns[1].expanded THEN Ret(None, "X", "TypeError")
    ELSE LET best == {i \in 1..Len(ns[1].children) :
                        ns[ns[1].children[i]].highest_score
                            = ns[1].highest_score}
         IN  IF best = {} THEN Ret(None, ns[1].action_taken, "none")
             ELSE Ret(None,
                      ns[ns[1].children[CHOOSE i \in best :
                                          \A j \in best : i <= j]].action_taken,
                      "none")

(***************************************************************************)
(* The skill decision tree (a2_skill_decision_tree.py).  A tree is the     *)
(* list of its SkillDecisionTree objects, t.nodes; an object is named by   *)
(* its index, the root is object 1 and children is a list of indices.  A   *)
(* condition is one of the module's condition functions, applied to the    *)
(* HP of the caster and of the target.                                     *)
(***************************************************************************)
\* pick_skill returns None
NoSkill == "None"

\* the skill an object of a tree holds: object i holds SkillNames[i]
SkillNames == <<"MageAttack", "RogueSpecial", "RogueAttack", "MageSpecial">>

\* the condition functions with >= and <= in place of > and <
Holds_inclusive(condition, caster_hp, target_hp, caster_sp, target_sp) ==
    CASE condition = "f_false" -> FALSE
      [] condition = "f_caster_hp_gt_50" -> caster_hp >= 50
      [] condition = "f_target_hp_lt_30" -> target_hp <= 30
      [] condition = "f_caster_sp_gt_20" -> caster_sp >= 20
      [] condition = "f_target_sp_gt_40" -> target_sp >= 40
      [] condition = "f_caster_hp_gt_90" -> caster_hp >= 90

\* f_false, f_caster_hp_gt_50, f_target_hp_lt_30, f_caster_sp_gt_20,
\* f_target_sp_gt_40, f_caster_hp_gt_90
Holds(condition, caster_hp, target_hp, caster_sp, target_sp) ==
    CASE condition = "f_false" -> FALSE
      [] condition = "f_caster_hp_gt_50" -> caster_hp > 50
      [] condition = "f_target_hp_lt_30" -> target_hp < 30
      [] condition = "f_caster_sp_gt_20" -> caster_sp > 20
      [] condition = "f_target_sp_gt_40" -> target_sp > 40
      [] condition = "f_caster_hp_gt_90" -> caster_hp > 90

\* node.condition(caster, target)
Condition(t, k) ==
    Holds(t.nodes[k].condition, t.caster_hp, t.target_hp, t.caster_sp,
          t.target_sp)

\* SkillDecisionTree.__init__: children is children[:] if given, else []
SkillDecisionTree(value, condition, priority, children) ==
    [value |-> value, condition |-> condition, priority |-> priority,
     children |-> children]

RECURSIVE get_possible_skills(_, _)
RECURSIVE SumPossible(_, _)
\* sum([child.get_possible_skills(caster, target) for child in children], [])
SumPossible(t, children) ==
    IF children = <<>> THEN <<>>
    ELSE get_possible_skills(t, Head(children))
            \o SumPossible(t, Tail(children))

\* get_possible_skills with the node itself before its children's candidates
get_possible_skills_with_self(t, k) ==
    IF ~Condition(t, k) THEN <<k>>
    ELSE <<k>> \o SumPossible(t, t.nodes[k].children)

\* SkillDecisionTree.get_possible_skills; self.children is a list, never None
get_possible_skills(t, k) ==
    IF ~Condition(t, k) THEN <<k>>
    ELSE SumPossible(t, t.nodes[k].children)

RECURSIVE PickLoop(_, _, _, _)
\* PickLoop that keeps the candidate of greater priority number
PickLoop_greatest(t, possible_skills, i, highest_priority_node) ==
    IF i > Len(possible_skills) THEN highest_priority_node
    ELSE PickLoop(t, possible_skills, i + 1,
                  IF t.nodes[possible_skills[i]].priority
                        > t.nodes[highest_priority_node].priority
                  THEN possible_skills[i] ELSE highest_priority_node)

\* the for loop of pick_skill, from index i on
PickLoop(t, possible_skills, i, highest_priority_node) ==
    IF i > Len(possible_skills) THEN highest_priority_node
    ELSE PickLoop(t, possible_skills, i + 1,
                  IF t.nodes[possible_skills[i]].priority
                        < t.nodes[highest_priority_node].priority
                  THEN possible_skills[i] ELSE highest_priority_node)

\* SkillDecisionTree.pick_skill
pick_skill(t, k) ==
    LET possible_skills == get_possible_skills(t, k)
    IN  IF possible_skills = <<>> THEN NoSkill
        ELSE t.nodes[PickLoop(t, possible_skills, 1,
                              possible_skills[1])].value

\* create_default_tree: object n of the list is sdtn, the object of priority
\* n, and the tree returned is sdt5
create_default_tree ==
    [nodes |-> <<SkillDecisionTree("RogueAttack", "f_caster_hp_gt_90", 1,
                                   <<7>>),
                 SkillDecisionTree("MageSpecial", "f_target_sp_gt_40", 2,
                                   <<8>>),
                 SkillDecisionTree("MageAttack", "f_caster_sp_gt_20", 3,
                                   <<4>>),
                 SkillDecisionTree("RogueSpecial", "f_target_hp_lt_30", 4,
                                   <<6>>),
                 SkillDecisionTree("MageAttack", "f_caster_hp_gt_50", 5,
                                   <<3, 2, 1>>),
                 SkillDecisionTree("RogueAttack", "f_false", 6, <<>>),
                 SkillDecisionTree("RogueSpecial", "f_false", 7, <<>>),
                 SkillDecisionTree("RogueAttack", "f_false", 8, <<>>)>>,
     root |-> 5]

\* the skill objects of the default tree: whose attack or special attack
\* each is
ChosenSkill(skill) ==
    CASE skill = "MageAttack" -> [kind |-> "Mage", action |-> "A"]
      [] skill = "MageSpecial" -> [kind |-> "Mage", action |-> "S"]
      [] skill = "RogueAttack" -> [kind |-> "Rogue", action |-> "A"]
      [] skill = "RogueSpecial" -> [kind |-> "Rogue", action |-> "S"]

\* SorcererAttack.use with the default tree as its decision tree: the skill
\* the tree picks is used, and the caster's SP is set so that the attack has
\* cost the SP of SorcererAttack
SorcererAttack_use(h, caster, target) ==
    Bind(pick_skill([nodes |-> create_default_tree.nodes,
                     caster_hp |-> h.a[caster].hp,
                     target_hp |-> h.a[target].hp,
                     caster_sp |-> h.a[caster].sp,
                     target_sp |-> h.a[target].sp],
                    create_default_tree.root), LAMBDA chosen_skill :
    IF chosen_skill = NoSkill THEN h ELSE
    Bind(ChosenSkill(chosen_skill), LAMBDA s :
    Bind(Skill_use(h, s.kind, s.action, caster, target), LAMBDA h1 :
    [h1 EXCEPT !.a[caster].sp = @ + SkillCost(s.kind, s.action)
                                  - SkillCost("Sorcerer", "A")])))

\* no tree has been built and no call been made on one
TreeIdle ==
    /\ sdt = [nodes |-> <<>>, caster_hp |-> 0, target_hp |-> 0,
              caster_sp |-> 0, target_sp |-> 0]
    /\ answer = [op |-> "none"]

(***************************************************************************)
(* The queue machine: a game queue (object 1, with the characters 1 and    *)
(* 2) and the calls a client can make on it.  The client can also take a   *)
(* copy of the queue (object 2), make calls on the copy and on the         *)
(* characters reachable from it, and drop it.  last records the call just  *)
(* made and the heap it was made in; copyOps counts the calls made on the  *)
(* copy since it was taken.                                                *)
(***************************************************************************)
Character(kind, hp, sp, enemy, bq) ==
    [kind |-> kind, hp |-> hp, sp |-> sp, enemy |-> enemy, bq |-> bq]

\* two characters, each the other's enemy, and the queue they were built with
NewGame(restricted, k1, hp1, sp1, k2, hp2, sp2) ==
    [a |-> (1 :> Character(k1, hp1, sp1, 2, 1)) @@
           (2 :> Character(k2, hp2, sp2, 1, 1)),
     q |-> (1 :> NewQueue(restricted))]

\* the SP a character starts the queue machine with: enough for one
\* special attack, or for a few attacks, after which its tickets are dead
StartSP(kind) == SkillCost(kind, "S")

\* a new character's HP
StartHP == 100

Call(op, q, c, h, ret, err) ==
    [op |-> op, q |-> q, c |-> c, ret |-> ret, err |-> err, pre |-> h]

SearchIdle ==
    /\ result = [op |-> "none"]
    /\ nodes = <<>>
    /\ stack = <<>>
    /\ ipc = "idle"

Init ==
    /\ \E restricted \in BOOLEAN, k2 \in Kinds :
            heap = NewGame(restricted, "Rogue", StartHP, StartSP("Rogue"),
                           k2, StartHP, StartSP(k2))
    /\ last = Call("init", None, None, heap, None, "none")
    /\ copyOps = 0
    /\ SearchIdle
    /\ TreeIdle

\* the queue the client works on: the copy while there is one
Current == IF 2 \in DOMAIN heap.q THEN 2 ELSE 1

\* the client may make another call: on the copy, at most MaxCopyOps calls
MayCall == Current = 2 => copyOps < MaxCopyOps

Counted == copyOps' = IF Current = 2 THEN copyOps + 1 ELSE copyOps

\* the characters a client holding queue q can reach: the ones built with
\* it, its players and its tickets
ActorsOf(q) ==
    ({c \in DOMAIN heap.a : heap.a[c].bq = q}
       \cup {heap.q[q].p1, heap.q[q].p2}
       \cup {heap.q[q].content[i] : i \in 1..Len(heap.q[q].content)})
    \ {None}

Add(q, c) ==
    /\ MayCall
    /\ Len(heap.q[q].content) < MaxLen
    /\ heap' = add(heap, q, c)
    /\ last' = Call("add", q, c, heap, None, "none")
    /\ Counted
    /\ UNCHANGED <<searchVars, treeVars>>

Remove(q) ==
    LET r == remove(heap, q)
    IN  /\ MayCall
        /\ heap' = r.h
        /\ last' = Call("remove", q, None, heap, r.ret, r.err)
        /\ Counted
        /\ UNCHANGED <<searchVars, treeVars>>

Peek(q) ==
    LET r == peek(heap, q)
    IN  /\ MayCall
        /\ heap' = r.h
        /\ last' = Call("peek", q, None, heap, r.ret, "none")
        /\ Counted
        /\ UNCHANGED <<searchVars, treeVars>>

IsEmpty(q) ==
    LET r == is_empty(heap, q)
    IN  /\ MayCall
        /\ heap' = r.h
        /\ last' = Call("is_empty", q, None, heap, r.ret, "none")
        /\ Counted
        /\ UNCHANGED <<searchVars, treeVars>>

IsOver(q) ==
    LET r == is_over(heap, q)
    IN  /\ MayCall
        /\ heap' = r.h
        /\ last' = Call("is_over", q, None, heap, r.ret, "none")
        /\ Counted
        /\ UNCHANGED <<searchVars, treeVars>>

GetWinner(q) ==
    LET r == get_winner(heap, q)
    IN  /\ MayCall
        /\ heap' = r.h
        /\ last' = Call("get_winner", q, None, heap, r.ret, r.err)
        /\ Counted
        /\ UNCHANGED <<searchVars, treeVars>>

\* c.attack() or c.special_attack() for a character that has the action
Act(q, c, action) ==
    /\ MayCall
    /\ \E i \in 1..Len(get_available_actions(heap, c)) :
          get_available_actions(heap, c)[i] = action
    /\ heap.a[c].enemy # None
    /\ Len(heap.q[heap.a[c].bq].content)
          + Len(SkillAdds(heap.a[c].kind, action)) <= MaxLen
    /\ heap' = IF action = "A" THEN attack(heap, c)
                ELSE special_attack(heap, c)
    /\ last' = Call(action, q, c, heap, None, "none")
    /\ Counted
    /\ UNCHANGED <<searchVars, treeVars>>

\* copy() of the game queue
Copy ==
    LET r == copy(heap, 1, 2)
    IN  /\ Current = 1
        /\ heap' = r.h
        /\ last' = Call("copy", 1, None, heap, r.ret, r.err)
        /\ copyOps' = 0
        /\ UNCHANGED <<searchVars, treeVars>>

\* the client drops the copy: the queue object 2 and the characters 3 and 4
\* are garbage
Drop ==
    /\ Current = 2
    /\ heap' = [a |-> [c \in {1, 2} |-> heap.a[c]],
                q |-> [k \in {1} |-> heap.q[k]]]
    /\ last' = Call("drop", 2, None, heap', None, "none")
    /\ copyOps' = 0
    /\ UNCHANGED <<searchVars, treeVars>>

Next ==
    \/ \E c \in ActorsOf(Current) : Add(Current, c)
    \/ Remove(Current)
    \/ Peek(Current)
    \/ IsEmpty(Current)
    \/ IsOver(Current)
    \/ GetWinner(Current)
    \/ \E c \in ActorsOf(Current) : Act(Current, c, "A")
    \/ \E c \in ActorsOf(Current) : Act(Current, c, "S")
    \/ Copy
    \/ Drop

Spec == Init /\ [][Next]_vars

(***************************************************************************)
(* Properties of the queue machine.                                        *)
(***************************************************************************)
Tickets(q) == heap.q[q].content
Bits(q) == heap.q[q].add_status
PreTickets(q) == last.pre.q[q].content
PreBits(q) == last.pre.q[q].add_status

\* the call just made was add(c) on a restricted queue
RestrictedAdd == last.op = "add" /\ last.pre.q[last.q].restricted

\* C1: on a restricted queue (the game queue or a copy of it), no character
\* ever has more than 2 tickets that can add.
C1_EligibilityCap ==
    \A q \in DOMAIN heap.q : \A c \in DOMAIN heap.a :
        heap.q[q].restricted => get_add_ability_count(heap, q, c) <= 2

\* an add was just refused the ability to add because its character already
\* had 2 tickets that can add
C1_Witness ==
    /\ RestrictedAdd
    /\ get_add_ability_count(last.pre, last.q, last.c) = 2
    /\ get_add_ability_count(heap, last.q, last.c) = 2
    /\ Len(Tickets(last.q)) = Len(PreTickets(last.q)) + 1

\* C4: a call made on the copy of the queue, or on a character reached from
\* the copy, leaves the ticket list (and the abilities to add) of the game
\* queue and the HP and SP of its two characters as they were.
C4_CopyIndependence ==
    last.q = 2 =>
        /\ Tickets(1) = PreTickets(1)
        /\ Bits(1) = PreBits(1)
        /\ \A c \in {1, 2} : /\ heap.a[c].hp = last.pre.a[c].hp
                              /\ heap.a[c].sp = last.pre.a[c].sp

\* a character of the copy has just attacked: its SP and its enemy's HP differ
\* from those of the characters they were copied from
C4_Witness ==
    /\ last.q = 2
    /\ last.op \in {"A", "S"}
    /\ last.c = heap.q[2].p1
    /\ heap.a[heap.q[2].p1].sp < heap.a[heap.q[1].p1].sp
    /\ heap.a[heap.q[2].p2].hp < heap.a[heap.q[1].p2].hp
    /\ Len(Tickets(2)) > Len(Tickets(1))

\* C6 as claimed: an add of a character that was added to the queue before,
\* made while the front ticket cannot add, changes neither list.
C6_IneligibleFrontNoOp ==
    (/\ RestrictedAdd
     /\ last.c \in last.pre.q[last.q].added
     /\ PreTickets(last.q) # <<>>
     /\ ~PreBits(last.q)[1])
    => /\ Tickets(last.q) = PreTickets(last.q)
       /\ Bits(last.q) = PreBits(last.q)

\* C7: the first add ever of a character to a restricted queue appends the
\* ticket and lets it add, whatever the front ticket is.
C7_FirstInsertion ==
    (RestrictedAdd /\ last.c \notin last.pre.q[last.q].added)
    => /\ Tickets(last.q) = Append(PreTickets(last.q), last.c)
       /\ Bits(last.q) = Append(PreBits(last.q), TRUE)

\* a character was added for the first time while the front ticket was
\* another character's and could not add
C7_Witness ==
    /\ RestrictedAdd
    /\ last.c \notin last.pre.q[last.q].added
    /\ PreTickets(last.q) # <<>>
    /\ PreTickets(last.q)[1] # last.c
    /\ ~PreBits(last.q)[1]
    /\ Bits(last.q)[Len(Bits(last.q))]

\* C8 as claimed: an add of a character that was added before, made while
\* the front ticket can add, appends the ticket; the ticket can add iff the
\* character is the front ticket's and had fewer than 2 tickets that can add.
C8_EligibleFrontAdd ==
    (/\ RestrictedAdd
     /\ last.c \in last.pre.q[last.q].added
     /\ PreTickets(last.q) # <<>>
     /\ PreBits(last.q)[1])
    => /\ Tickets(last.q) = Append(PreTickets(last.q), last.c)
       /\ Bits(last.q) =
            Append(PreBits(last.q),
                   /\ last.c = PreTickets(last.q)[1]
                   /\ get_add_ability_count(last.pre, last.q, last.c) < 2)

\* the call just made was a copy() that returned
Copied == last.op = "copy" /\ last.err = "none"

\* C9 as claimed: every ticket of the copy of a restricted queue can add iff
\* the ticket at its position in the source can.
C9_CopyKeepsAddAbility ==
    (Copied /\ heap.q[2].restricted) => Bits(2) = PreBits(1)

\* C10: the copy has as many tickets as the source, ticket i of the copy is
\* the copy of player 1 iff ticket i of the source is player 1, and the copy
\* of player 2 otherwise; the players of the copy are the copies of the
\* players of the source (new characters with their kind, HP and SP) and are
\* each other's enemy.
C10_CopyKeepsTickets ==
    Copied =>
        /\ Len(Tickets(2)) = Len(PreTickets(1))
        /\ \A i \in 1..Len(PreTickets(1)) :
              Tickets(2)[i] = IF PreTickets(1)[i] = last.pre.q[1].p1
                              THEN heap.q[2].p1 ELSE heap.q[2].p2
        /\ heap.q[2].p1 = P1Copy(2) /\ heap.q[2].p2 = P2Copy(2)
        /\ heap.a[P1Copy(2)] =
              [last.pre.a[last.pre.q[1].p1] EXCEPT !.bq = 2, !.enemy = P2Copy(2)]
        /\ heap.a[P2Copy(2)] =
              [last.pre.a[last.pre.q[1].p2] EXCEPT !.bq = 2, !.enemy = P1Copy(2)]

\* a queue whose first player is character 2 and that holds tickets of both
\* players, one of them twice, was just copied
C10_Witness ==
    /\ Copied
    /\ last.pre.q[1].p1 = 2
    /\ Len(Tickets(2)) = 3
    /\ \E i, j \in 1..3 : Tickets(2)[i] = P1Copy(2) /\ Tickets(2)[j] = P2Copy(2)

\* the number of leading tickets of queue q, before the last call, whose
\* characters have no available action
LeadingDead(q) ==
    CHOOSE k \in 0..Len(PreTickets(q)) :
        /\ \A i \in 1..k :
              get_available_actions(last.pre, PreTickets(q)[i]) = <<>>
        /\ k < Len(PreTickets(q)) =>
              get_available_actions(last.pre, PreTickets(q)[k + 1]) # <<>>

\* C19: remove() purges the leading tickets of characters with no available
\* action and then removes and returns the first ticket that remains, on a
\* restricted queue together with its bit; if no ticket remains it fails
\* with an error, no live ticket is removed and the ticket list and the bit
\* list have the same length
C19_Remove ==
    last.op = "remove" =>
        LET q == last.q
            k == LeadingDead(q)
            n == Len(PreTickets(q))
        IN  /\ heap.a = last.pre.a
            /\ IF k < n
               THEN /\ last.err = "none"
                    /\ last.ret = PreTickets(q)[k + 1]
                    /\ Tickets(q) = SubSeq(PreTickets(q), k + 2, n)
                    /\ heap.q[q].restricted =>
                          Bits(q) = SubSeq(PreBits(q), k + 2, n)
               ELSE /\ last.err # "none"
                    /\ Tickets(q) = <<>>
                    /\ heap.q[q].restricted => Len(Bits(q)) = Len(Tickets(q))

\* a remove() that purged a ticket and returned the ticket behind it
C19_Witness ==
    /\ last.op = "remove"
    /\ last.err = "none"
    /\ LeadingDead(last.q) > 0

\* C20: right after peek, is_empty, is_over or get_winner, and after the
\* purge step of remove, the front ticket of the queue, if there is one,
\* belongs to a character with at least one available action (for remove
\* that is the ticket it returns)
C20_FrontTicket ==
    /\ last.op \in {"peek", "is_empty", "is_over", "get_winner"} =>
          (Tickets(last.q) = <<>>
             \/ get_available_actions(heap, Tickets(last.q)[1]) # <<>>)
    /\ (last.op = "remove" /\ last.err = "none") =>
          get_available_actions(last.pre, last.ret) # <<>>

\* an inspection of a queue whose first two tickets were dead left a live
\* ticket at the front
C20_Witness ==
    /\ last.op \in {"peek", "is_empty", "is_over", "get_winner"}
    /\ LeadingDead(last.q) >= 2
    /\ Tickets(last.q) # <<>>

\* C21: right after is_empty() or peek(), with no add, remove or change of
\* a character in between, a further is_empty() returns what the first one
\* returned, a further peek() returns the same character, and neither of
\* them changes the ticket list or the bit list (nor anything else)
C21_CleaningIdempotence ==
    last.op \in {"peek", "is_empty"} =>
        /\ is_empty(heap, last.q).h = heap
        /\ peek(heap, last.q).h = heap
        /\ last.op = "is_empty" => is_empty(heap, last.q).ret = last.ret
        /\ last.op = "peek" => peek(heap, last.q).ret = last.ret

\* an is_empty() that purged a ticket and left another one
C21_Witness ==
    /\ last.op = "is_empty"
    /\ LeadingDead(last.q) > 0
    /\ ~last.ret

\* C22: the first add(c) on a queue sets player 1 to c and player 2 to the
\* enemy of c; before it both are None, and after it no add, remove, peek,
\* is_empty, is_over or get_winner on the queue, restricted or not, changes
\* either of them
C22_PlayersFixed ==
    last.op \in {"add", "remove", "peek", "is_empty", "is_over",
                 "get_winner"} =>
        LET now == heap.q[last.q]
            pre == last.pre.q[last.q]
        IN  IF pre.added # {}
            THEN now.p1 = pre.p1 /\ now.p2 = pre.p2 /\ pre.p1 # None
            ELSE IF last.op = "add"
            THEN now.p1 = last.c /\ now.p2 = last.pre.a[last.c].enemy
            ELSE now.p1 = None /\ now.p2 = None

\* a later add, of the character that is not player 1
C22_Witness ==
    /\ last.op = "add"
    /\ last.pre.q[last.q].added # {}
    /\ last.c # heap.q[last.q].p1

\* C24: peek() purges the leading tickets of characters with no available
\* action and returns the first ticket that remains, which stays in the
\* queue with every ticket behind it; if no ticket remains it returns
\* player 1.  It changes no character.
C24_Peek ==
    last.op = "peek" =>
        LET q == last.q
            k == LeadingDead(q)
            n == Len(PreTickets(q))
        IN  /\ heap.a = last.pre.a
            /\ Tickets(q) = SubSeq(PreTickets(q), k + 1, n)
            /\ last.ret = IF k < n THEN PreTickets(q)[k + 1]
                          ELSE last.pre.q[q].p1

\* a peek() that purged every ticket of the queue and returned player 1
C24_Witness ==
    /\ last.op = "peek"
    /\ PreTickets(last.q) # <<>>
    /\ Tickets(last.q) = <<>>
    /\ last.ret = heap.q[last.q].p1

\* C26: in every state, after any calls of add, remove (also a remove that
\* fails on an empty queue), peek, is_empty, is_over, get_winner, copy and
\* the attacks, the bit list of a restricted queue is as long as its ticket
\* list, so that add finds a bit for the front ticket
C26_PermissionAlignment ==
    \A q \in DOMAIN heap.q :
        heap.q[q].restricted => Len(Bits(q)) = Len(Tickets(q))

\* a remove() on a restricted queue that purged every ticket and failed
C26_Witness ==
    /\ last.op = "remove"
    /\ last.err # "none"
    /\ heap.q[last.q].restricted
    /\ PreTickets(last.q) # <<>>

\* C27: on a restricted queue, a call that purges (peek, is_empty, is_over,
\* get_winner) or removes (remove) leaves a suffix of the ticket list and
\* the same suffix of the bit list, and a call that adds (add, attack,
\* special attack) leaves both lists as prefixes of the new ones: a ticket
\* that stays in the queue keeps its bit
C27_PairingKept ==
    \A q \in DOMAIN heap.q \cap DOMAIN last.pre.q :
        heap.q[q].restricted /\ last.op \notin {"init", "copy", "drop"} =>
            LET n  == Len(last.pre.q[q].content)
                m  == Len(Tickets(q))
                t0 == last.pre.q[q].content
                b0 == last.pre.q[q].add_status
            IN  IF last.op \in {"add", "A", "S"}
                THEN /\ m >= n
                     /\ t0 = SubSeq(Tickets(q), 1, n)
                     /\ b0 = SubSeq(Bits(q), 1, n)
                ELSE /\ m <= n
                     /\ Tickets(q) = SubSeq(t0, n - m + 1, n)
                     /\ Bits(q) = SubSeq(b0, n - m + 1, n)

\* a purge that dropped a ticket with another bit than the first ticket it
\* left
C27_Witness ==
    /\ last.op \in {"peek", "is_empty", "is_over", "get_winner"}
    /\ heap.q[last.q].restricted
    /\ LeadingDead(last.q) > 0
    /\ Tickets(last.q) # <<>>
    /\ Bits(last.q)[1] # PreBits(last.q)[1]

\* C31: is_empty() returns true exactly if no ticket of the queue belongs
\* to a character with an available action, and then the queue is left with
\* no ticket; otherwise it leaves the first ticket of such a character and
\* every ticket behind it, dead ones included
C31_IsEmpty ==
    last.op = "is_empty" =>
        LET q == last.q
            n == Len(PreTickets(q))
            live == {i \in 1..n :
                        get_available_actions(last.pre, PreTickets(q)[i])
                            # <<>>}
        IN  /\ last.ret <=> live = {}
            /\ last.ret => Tickets(q) = <<>>
            /\ ~last.ret =>
                  Tickets(q) = SubSeq(PreTickets(q), LeadingDead(q) + 1, n)
            /\ heap.a = last.pre.a

\* an is_empty() that returned false and left a dead ticket behind a live one
C31_Witness ==
    /\ last.op = "is_empty"
    /\ ~last.ret
    /\ \E i \in 2..Len(Tickets(last.q)) :
          get_available_actions(heap, Tickets(last.q)[i]) = <<>>

\* C33: on a queue add() was never called on, is_empty() and is_over()
\* return True and get_winner() returns None and raises no error
C33_NewQueueTotal ==
    (last.op \in {"is_empty", "is_over", "get_winner"}
        /\ last.pre.q[last.q].added = {}) =>
        /\ last.err = "none"
        /\ last.op \in {"is_empty", "is_over"} => last.ret = TRUE
        /\ last.op = "get_winner" => last.ret = None

(***************************************************************************)
(* The search machine: a game position (a queue built by add() calls, with *)
(* characters whose HP and SP were set) on which the scorer and the two    *)
(* playstyles are called.  result records the last call, what it returned  *)
(* and the heap it was made in.  The iterative playstyle runs one pass of  *)
(* its while loop per step.                                                *)
(***************************************************************************)
\* HP and SP of the characters of a position
SearchHP == {0, 10, 15, 100}
SearchKinds == {"Rogue", "Vampire"}
SearchSP(kind) == {SkillCost(kind, "A") - 1, SkillCost(kind, "S")}

\* the ticket lists of at most n tickets of the characters 1 and 2
TicketLists(n) == UNION {[1..m -> {1, 2}] : m \in 0..n}

RECURSIVE AddTickets(_, _)
AddTickets(h, tickets) ==
    IF tickets = <<>> THEN h
    ELSE AddTickets(add(h, 1, Head(tickets)), Tail(tickets))

RECURSIVE RemoveTickets(_, _)
\* n times: if not is_empty(): remove().  is_empty() purges the queue
\* also when it finds no ticket to remove.
RemoveTickets(h, n) ==
    IF n = 0 THEN h ELSE
    Bind(is_empty(h, 1), LAMBDA e :
    IF e.ret THEN e.h
    ELSE RemoveTickets(remove(e.h, 1).h, n - 1))

SearchInit ==
    /\ \E restricted \in BOOLEAN, k2 \in SearchKinds, hp1, hp2 \in SearchHP,
          sp1 \in SearchSP("Rogue"), tickets \in TicketLists(MaxStart),
          n \in 0..MaxRemoved :
          \E sp2 \in SearchSP(k2) :
            heap = RemoveTickets(
                     AddTickets(NewGame(restricted, "Rogue", hp1, sp1,
                                        k2, hp2, sp2), tickets), n)
    /\ last = Call("init", None, None, heap, None, "none")
    /\ copyOps = 0
    /\ SearchIdle
    /\ TreeIdle

Returned(op, r, pre) == [op |-> op, ret |-> r.ret, err |-> r.err, pre |-> pre]

\* the record of a select_attack() that returned: the action it chose
Selected(op, r, pre) ==
    [op |-> op, action |-> r.ret, err |-> r.err, pre |-> pre]

\* get_state_score(battle_queue)
GetStateScore ==
    /\ ipc = "idle"
    /\ \E r \in {get_state_score(heap, 1, 2)} :
          /\ heap' = Retain(r.h, {1})
          /\ result' = Returned("get_state_score", r, heap)
    /\ UNCHANGED <<nodes, stack, ipc>>
    /\ UNCHANGED <<queueVars, treeVars>>

\* battle_queue.get_winner() on the game queue of a position
PositionWinner ==
    /\ ipc = "idle"
    /\ \E r \in {get_winner(heap, 1)} :
          /\ heap' = r.h
          /\ result' = Returned("get_winner", r, heap)
    /\ UNCHANGED <<nodes, stack, ipc>>
    /\ UNCHANGED <<queueVars, treeVars>>

\* battle_queue.is_over() on the game queue of a position
PositionOver ==
    /\ ipc = "idle"
    /\ \E r \in {is_over(heap, 1)} :
          /\ heap' = r.h
          /\ result' = [op |-> "is_over", over |-> r.ret, pre |-> heap]
    /\ UNCHANGED <<nodes, stack, ipc>>
    /\ UNCHANGED <<queueVars, treeVars>>

\* get_state_score_player(player, battle_queue) for either character
GetStateScorePlayer(player) ==
    /\ ipc = "idle"
    /\ \E r \in {get_state_score_player(heap, player, 1, 2)} :
          /\ heap' = Retain(r.h, {1})
          /\ result' = [op |-> "get_state_score_player", player |-> player,
                         ret |-> r.ret, err |-> r.err, pre |-> heap]
    /\ UNCHANGED <<nodes, stack, ipc>>
    /\ UNCHANGED <<queueVars, treeVars>>

\* MinimaxRecursivePlaystyle.select_attack()
SelectRecursive ==
    /\ ipc = "idle"
    /\ \E r \in {select_attack_recursive(heap, 1, 2)} :
          /\ heap' = Retain(r.h, {1})
          /\ result' = Selected("select_recursive", r, heap)
    /\ UNCHANGED <<nodes, stack, ipc>>
    /\ UNCHANGED <<queueVars, treeVars>>

\* MinimaxIterativePlaystyle.select_attack() when the front character has
\* no action (or there is none: AttributeError)
IterNoAction ==
    LET p == peek(heap, 1)
    IN  /\ ipc = "idle"
        /\ IF p.ret = None THEN TRUE
           ELSE get_available_actions(p.h, p.ret) = <<>>
        /\ heap' = p.h
        /\ result' = Selected("select_iterative",
                              Ret(p.h, "X", IF p.ret = None
                                            THEN "AttributeError" ELSE "none"),
                              heap)
        /\ UNCHANGED <<nodes, stack, ipc>>
        /\ UNCHANGED <<queueVars, treeVars>>

\* MinimaxIterativePlaystyle.select_attack() up to its while loop
IterStart ==
    /\ ipc = "idle"
    /\ \E p \in {peek(heap, 1)} :
          /\ p.ret # None
          /\ get_available_actions(p.h, p.ret) # <<>>
          /\ \E c \in {copy(p.h, 1, 2)} :
                \E r \in {peek(c.h, c.ret)} :
                   /\ heap' = r.h
                   /\ nodes' = <<GameStateNode(c.ret, r.ret, "X")>>
    /\ stack' = <<1>>
    /\ ipc' = "loop"
    /\ result' = [op |-> "running", pre |-> heap]
    /\ UNCHANGED <<queueVars, treeVars>>

Top == nodes[stack[Len(stack)]]
\* a pop that leaves the node on the stack
Popped_kept == stack
\* the stack after node = stack.pop()
Popped == SubSeq(stack, 1, Len(stack) - 1)

\* a pass that puts the node back on the stack above its children, so that
\* it is popped before them
IterExpand_parent_on_top ==
    /\ ipc = "loop" /\ stack # <<>>
    /\ ~Top.expanded
    /\ \E o \in {is_over(heap, Top.battle_queue)} :
          /\ ~o.ret
          /\ \E g \in {get_children_nodes(o.h, Top)} :
                LET ids == [i \in 1..Len(g.ret) |-> Len(nodes) + i]
                IN  /\ heap' = g.h
                    /\ nodes' = [nodes EXCEPT
                                   ![stack[Len(stack)]].children = ids,
                                   ![stack[Len(stack)]].expanded = TRUE]
                                \o g.ret
                    /\ stack' = Popped \o ids \o <<stack[Len(stack)]>>
    /\ UNCHANGED <<result, ipc>>
    /\ UNCHANGED <<queueVars, treeVars>>

\* a pass of the loop for a node that is not over and not expanded
IterExpand ==
    /\ ipc = "loop" /\ stack # <<>>
    /\ ~Top.expanded
    /\ \E o \in {is_over(heap, Top.battle_queue)} :
          /\ ~o.ret
          /\ \E g \in {get_children_nodes(o.h, Top)} :
                LET ids == [i \in 1..Len(g.ret) |-> Len(nodes) + i]
                IN  /\ heap' = g.h
                    /\ nodes' = [nodes EXCEPT
                                   ![stack[Len(stack)]].children = ids,
                                   ![stack[Len(stack)]].expanded = TRUE]
                                \o g.ret
                    /\ stack' = stack \o ids
    /\ UNCHANGED <<result, ipc>>
    /\ UNCHANGED <<queueVars, treeVars>>

\* a pass of the loop for a node that is not over and has children
IterMax ==
    LET o == is_over(heap, Top.battle_queue)
    IN  /\ ipc = "loop" /\ stack # <<>>
        /\ ~o.ret /\ Top.expanded /\ Top.children # <<>>
        /\ heap' = o.h
        /\ nodes' = [nodes EXCEPT
                       ![stack[Len(stack)]].highest_score =
                           MaxOf([i \in 1..Len(Top.children) |->
                                     nodes[Top.children[i]].highest_score]),
                       ![stack[Len(stack)]].scored = TRUE]
        /\ stack' = Popped
        /\ UNCHANGED <<result, ipc>>
        /\ UNCHANGED <<queueVars, treeVars>>

\* a pass of the loop for any other node: its score is that of a state that
\* is over
IterLeaf ==
    /\ ipc = "loop" /\ stack # <<>>
    /\ \E o \in {is_over(heap, Top.battle_queue)} :
          /\ o.ret \/ (Top.expanded /\ Top.children = <<>>)
          /\ \E t \in {TerminalScore(o.h, Top.battle_queue,
                                      Top.current_player)} :
                /\ heap' = t.h
                /\ nodes' = [nodes EXCEPT
                               ![stack[Len(stack)]].highest_score = t.ret,
                               ![stack[Len(stack)]].scored = TRUE]
    /\ stack' = Popped
    /\ UNCHANGED <<result, ipc>>
    /\ UNCHANGED <<queueVars, treeVars>>

\* the loop has ended: select_attack returns, and the tree is garbage
IterReturn ==
    /\ ipc = "loop" /\ stack = <<>>
    /\ heap' = Retain(heap, {1})
    /\ result' = Selected("select_iterative", RootChoice(nodes), result.pre)
    /\ nodes' = <<>>
    /\ ipc' = "idle"
    /\ UNCHANGED stack
    /\ UNCHANGED <<queueVars, treeVars>>

SearchNext ==
    \/ GetStateScore
    \/ PositionWinner
    \/ PositionOver
    \/ \E player \in {1, 2} : GetStateScorePlayer(player)
    \/ SelectRecursive
    \/ IterNoAction
    \/ IterStart
    \/ IterExpand
    \/ IterMax
    \/ IterLeaf
    \/ IterReturn

SpecSearch == SearchInit /\ [][SearchNext]_vars

(***************************************************************************)
(* Properties of the scorer and the playstyles.                            *)
(***************************************************************************)
\* the calls of the two select_attack() methods
Selects == {"select_recursive", "select_iterative"}

\* the score the recursive playstyle computes for the state an action of
\* the front character leads to
ActionScore(h, action) == RecTry(h, 1, 2, action).ret[2]

\* the second list holds no score less than some score of the first
MinOf(scores) ==
    CHOOSE m \in {scores[i] : i \in 1..Len(scores)} :
        \A i \in 1..Len(scores) : m <= scores[i]

RECURSIVE GuaranteedScore(_, _, _, _)
RECURSIVE GuaranteedScores(_, _, _, _, _)

\* the values of the states the actions of the front character lead to
GuaranteedScores(h, player, bq, free, actions) ==
    IF actions = <<>> THEN <<>> ELSE
    Bind(Successor(h, player, bq, bq, free, Head(actions)), LAMBDA m :
    <<GuaranteedScore(m.h, m.ret.player, m.ret.bq, free + 1)>>
       \o GuaranteedScores(h, player, bq, free, Tail(actions)))

\* the score player can guarantee in the game of queue bq: the terminal
\* score of a game that is over, else the greatest value of a move where
\* player moves and the least where its enemy moves
GuaranteedScore(h, player, bq, free) ==
    Bind(is_over(h, bq), LAMBDA o :
    IF o.ret THEN TerminalScore(o.h, bq, player).ret ELSE
    Bind(peek(o.h, bq), LAMBDA p :
    Bind(GuaranteedScores(p.h, player, bq, free,
                          get_available_actions(p.h, p.ret)), LAMBDA v :
    IF p.ret = player THEN MaxOf(v) ELSE MinOf(v))))

\* C2: on every queue that has its players, the iterative and the recursive
\* select_attack() both return, and they return the same action or two
\* actions whose resulting states have the same score (so the same action
\* when only one action is optimal).
C2_MinimaxEquivalence ==
    (result.op = "select_iterative" /\ result.pre.q[1].p1 # None) =>
        \E rec \in {select_attack_recursive(result.pre, 1, 2)} :
            /\ result.err = "none"
            /\ rec.err = "none"
            /\ \/ result.action = rec.ret
               \/ /\ result.action # "X"
                  /\ rec.ret # "X"
                  /\ ActionScore(result.pre, result.action)
                        = ActionScore(result.pre, rec.ret)

\* C3: get_state_score returns the score the front character can guarantee,
\* the enemy choosing, at its turns, what is worst for the front character.
C3_GuaranteedScore ==
    (result.op = "get_state_score" /\ result.err = "none") =>
        result.ret = GuaranteedScore(result.pre, peek(result.pre, 1).ret,
                                     1, 2)

\* what C5 names: the tickets and permission bits of the game queue and the
\* HP and SP of its two characters
Observed(h) ==
    <<h.q[1].content, h.q[1].add_status,
      [c \in {1, 2} |-> <<h.a[c].hp, h.a[c].sp>>]>>

\* C5 as stated: get_state_score and both select_attack() leave the game
\* queue's tickets and bits and the characters' HP and SP as they were.
C5_SearchPurity ==
    result.op \in Selects \cup {"get_state_score"} =>
        Observed(heap) = Observed(result.pre)

\* C5, corrected: get_state_score leaves the heap as it was; a
\* select_attack() leaves it as one _clean_queue() of the game queue makes
\* it (the leading tickets of characters that cannot act are gone, and with
\* them their bits), and the characters' HP and SP are as they were.
C5_SearchPurityUpToClean ==
    /\ result.op = "get_state_score" => heap = result.pre
    /\ result.op \in Selects =>
          /\ heap = clean_queue(result.pre, 1)
          /\ Observed(heap)[3] = Observed(result.pre)[3]

\* a select_attack() that searched (it returned an action) on a game queue
\* whose first ticket belonged to a character that cannot act
C5_Witness ==
    /\ result.op \in Selects
    /\ result.err = "none"
    /\ result.action \in {"A", "S"}
    /\ result.pre.q[1].content # <<>>
    /\ get_available_actions(result.pre, result.pre.q[1].content[1]) = <<>>
    /\ heap.q[1].content # result.pre.q[1].content

(***************************************************************************)
(* The winner and the score of a position that is over.                    *)
(***************************************************************************)
\* the game on queue q of heap h has players
HasPlayers(h, q) == h.q[q].p1 # None

\* the HP of the players of queue q
HP1(h, q) == h.a[h.q[q].p1].hp
HP2(h, q) == h.a[h.q[q].p2].hp

\* C11: get_winner() returns None whenever is_over() is false; when the game
\* is over it returns the player whose HP is not 0 if exactly one player has
\* HP 0, and None if both have HP 0 or neither has
C11_GetWinner ==
    (result.op = "get_winner" /\ HasPlayers(result.pre, 1)) =>
        /\ result.err = "none"
        /\ result.ret =
              IF ~is_over(result.pre, 1).ret THEN None
              ELSE IF HP1(result.pre, 1) = 0 /\ HP2(result.pre, 1) # 0
                   THEN result.pre.q[1].p2
              ELSE IF HP2(result.pre, 1) = 0 /\ HP1(result.pre, 1) # 0
                   THEN result.pre.q[1].p1
              ELSE None

\* C23: is_over() returns true exactly if no ticket of the queue belongs to
\* a character with an available action (the purge leaves no ticket), or
\* player 1 has HP 0, or player 2 has HP 0; the queue is left purged
C23_IsOver ==
    result.op = "is_over" =>
        LET content == result.pre.q[1].content
            live == {i \in 1..Len(content) :
                        get_available_actions(result.pre, content[i]) # <<>>}
        IN  /\ result.over <=> (\/ live = {}
                                \/ HP1(result.pre, 1) = 0
                                \/ HP2(result.pre, 1) = 0)
            /\ heap = clean_queue(result.pre, 1)

\* an is_over() that returned true for a queue with a live ticket whose
\* player 1 is alive
C23_Witness ==
    /\ result.op = "is_over"
    /\ result.over
    /\ heap.q[1].content # <<>>
    /\ HP1(heap, 1) # 0

\* the score the terminal rule gives player for a game on queue q that is
\* over: the HP of the survivor, negated if the survivor is the opponent,
\* and 0 if nobody or everybody survives
ExpectedTerminal(h, q, player) ==
    IF HP1(h, q) = 0 /\ HP2(h, q) # 0
    THEN IF player = h.q[q].p2 THEN HP2(h, q) ELSE -HP2(h, q)
    ELSE IF HP2(h, q) = 0 /\ HP1(h, q) # 0
    THEN IF player = h.q[q].p1 THEN HP1(h, q) ELSE -HP1(h, q)
    ELSE 0

\* C12: on a queue on which is_over() is true, the score for a player is the
\* survivor's HP if the survivor is that player, minus the survivor's HP if
\* it is the opponent, and 0 on a tie; the scores of the two players are
\* negations of each other.  The same holds for the score the iterative
\* playstyle gives to a node whose state is over.
C12_TerminalScore ==
    /\ (result.op = "get_state_score_player" /\ HasPlayers(result.pre, 1)
          /\ is_over(result.pre, 1).ret) =>
           /\ result.err = "none"
           /\ result.ret = ExpectedTerminal(result.pre, 1, result.player)
           /\ get_state_score_player(result.pre, 1, 1, 2).ret
                 = -get_state_score_player(result.pre, 2, 1, 2).ret
    /\ \A i \in 1..Len(nodes) :
          (nodes[i].scored /\ is_over(heap, nodes[i].battle_queue).ret) =>
              nodes[i].highest_score
                  = ExpectedTerminal(heap, nodes[i].battle_queue,
                                     nodes[i].current_player)

\* the score of a game that is over was asked for the player who lost it
C12_Witness ==
    /\ result.op = "get_state_score_player"
    /\ is_over(result.pre, 1).ret
    /\ result.ret < 0

(***************************************************************************)
(* Termination of the search.                                              *)
(***************************************************************************)
\* the cheapest skill: every simulated action costs at least this much SP
MinCost == SkillCost("Rogue", "A")

RECURSIVE StackWeight(_, _, _)
\* a variant of the stack loop: the sum over the nodes on the stack st of 1
\* for a node the next pass pops (its state is over, or it is expanded) and
\* of 3^(sp \div MinCost + 1) for a node the next pass expands, where sp is
\* the SP the two characters of its game have together
StackWeight(h, ns, st) ==
    IF st = <<>> THEN 0
    ELSE LET n == ns[Head(st)]
             sp == h.a[h.q[n.battle_queue].p1].sp
                     + h.a[h.q[n.battle_queue].p2].sp
         IN  (IF n.expanded \/ is_over(h, n.battle_queue).ret THEN 1
              ELSE 3 ^ (sp \div MinCost + 1))
             + StackWeight(h, ns, Tail(st))

\* C13: the search terminates.  Every pass of the stack loop of the
\* iterative playstyle lowers a variant that is a natural number, because
\* every simulated action costs SP and a node has at most two children, so
\* the stack empties after finitely many passes and every branch ends in a
\* state that is over; with the stack empty the call returns.
C13_Termination ==
    [][ipc = "loop" =>
          IF stack = <<>> THEN ipc' = "idle"
          ELSE StackWeight(heap', nodes', stack')
                  < StackWeight(heap, nodes, stack)]_vars

\* the loop has emptied its stack after building a tree of several plies
C13_Witness ==
    /\ ipc = "loop"
    /\ stack = <<>>
    /\ \E i \in 2..Len(nodes) : nodes[i].children # <<>>

(***************************************************************************)
(* What the two playstyles return.                                         *)
(***************************************************************************)
\* the actions of the character peek() returns on the game queue of h
FrontActions(h) == get_available_actions(peek(h, 1).h, peek(h, 1).ret)

\* action is the first of the actions, in their order, whose resulting state
\* scores what the root state scores
FirstMatch(h, action) ==
    \E i \in 1..Len(FrontActions(h)) :
        /\ FrontActions(h)[i] = action
        /\ ActionScore(h, action) = get_state_score(h, 1, 2).ret
        /\ \A j \in 1..(i - 1) :
              ActionScore(h, FrontActions(h)[j]) # get_state_score(h, 1, 2).ret

\* C14: the recursive select_attack() returns 'X' if the front character has
\* no action; otherwise it returns an available action whose resulting state
\* scores the root score get_state_score(queue), 'A' rather than 'S' when
\* both do
C14_RecursiveChoice ==
    (result.op = "select_recursive" /\ HasPlayers(result.pre, 1)) =>
        /\ result.err = "none"
        /\ IF FrontActions(result.pre) = <<>> THEN result.action = "X"
           ELSE FirstMatch(result.pre, result.action)

\* C14 as the code has it: with no action whose resulting state scores the
\* root score the recursive select_attack() returns 'X' too, and that
\* happens only at a root whose game is over
C14_RecursiveChoiceOrNone ==
    (result.op = "select_recursive" /\ HasPlayers(result.pre, 1)) =>
        /\ result.err = "none"
        /\ IF FrontActions(result.pre) = <<>> THEN result.action = "X"
           ELSE IF result.action = "X"
           THEN /\ is_over(result.pre, 1).ret
                /\ \A a \in {"A", "S"} : ~FirstMatch(result.pre, a)
           ELSE FirstMatch(result.pre, result.action)

\* the recursive select_attack() returned 'X' although the front character
\* has an action
C14_Witness ==
    /\ result.op = "select_recursive"
    /\ result.err = "none"
    /\ result.action = "X"
    /\ FrontActions(result.pre) # <<>>

\* C15: when its stack loop has ended the iterative select_attack() returns
\* the action of the first child of the root, in the order of the actions,
\* whose score is the root's score, and 'X' when the root has no children
\* (the root state is over and was never expanded)
C15_IterativeChoice ==
    [][(ipc = "loop" /\ stack = <<>>) =>
          LET best == {i \in 1..Len(nodes[1].children) :
                         nodes[nodes[1].children[i]].highest_score
                             = nodes[1].highest_score}
          IN  /\ result'.err = "none"
              /\ result'.action =
                    IF best = {} THEN "X"
                    ELSE nodes[nodes[1].children[
                             CHOOSE i \in best : \A j \in best : i <= j]
                         ].action_taken]_vars

(***************************************************************************)
(* The score of a position the front character wins at once.               *)
(***************************************************************************)
\* no action of the game of position h gives HP to its caster
NoDrain(h) == \A c \in {1, 2} : ~SkillDrains(h.a[c].kind)

\* the actions of the front character of position h that leave its enemy
\* with HP 0
KillingActions(h) ==
    LET front == peek(h, 1).ret
    IN  {i \in 1..Len(FrontActions(h)) :
            deal_damage(h, front, h.a[front].enemy,
                        FrontActions(h)[i]).a[h.a[front].enemy].hp = 0}

\* C25 as stated: in a game where no action gives HP to its caster,
\* get_state_score never exceeds the HP of the front character, and it is
\* that HP whenever the queue has a front ticket whose character has an
\* action that brings the enemy's HP to 0
C25_ImmediateWinAlways ==
    (result.op = "get_state_score" /\ result.err = "none"
        /\ NoDrain(result.pre)) =>
        /\ result.ret <= result.pre.a[peek(result.pre, 1).ret].hp
        /\ (~is_empty(result.pre, 1).ret
               /\ KillingActions(result.pre) # {}) =>
              result.ret = result.pre.a[peek(result.pre, 1).ret].hp

\* C25, for games that are not over: in a game where no action gives HP to
\* its caster, get_state_score never exceeds the HP of the front character,
\* and it is that HP whenever the game is not over and the front character
\* has an action that brings the enemy's HP to 0
C25_ImmediateWin ==
    (result.op = "get_state_score" /\ result.err = "none"
        /\ NoDrain(result.pre)) =>
        /\ result.ret <= result.pre.a[peek(result.pre, 1).ret].hp
        /\ (~is_over(result.pre, 1).ret
               /\ KillingActions(result.pre) # {}) =>
              result.ret = result.pre.a[peek(result.pre, 1).ret].hp

\* get_state_score returned the HP of a front character that wins by its
\* special attack and not by its attack
C25_Witness ==
    /\ result.op = "get_state_score"
    /\ result.err = "none"
    /\ NoDrain(result.pre)
    /\ ~is_over(result.pre, 1).ret
    /\ KillingActions(result.pre) = {2}
    /\ result.ret = result.pre.a[peek(result.pre, 1).ret].hp

(***************************************************************************)
(* The order in which the iterative search scores its nodes.               *)
(***************************************************************************)
\* C28: in the iterative search, a node is expanded at most once (every
\* node but the root is the child of exactly one node, and only nodes of
\* states that are not over have children); a node that has children and a
\* score has children that all have a score, and its score is the greatest
\* of theirs; and when the stack is empty every node has a score
C28_PostOrder ==
    ipc = "loop" =>
        /\ \A j \in 2..Len(nodes) :
              Cardinality({i \in 1..Len(nodes) :
                             \E k \in 1..Len(nodes[i].children) :
                                 nodes[i].children[k] = j}) = 1
        /\ \A i \in 1..Len(nodes) :
              nodes[i].children # <<>> =>
                  /\ nodes[i].expanded
                  /\ ~is_over(heap, nodes[i].battle_queue).ret
        /\ \A i \in 1..Len(nodes) :
              (nodes[i].scored /\ nodes[i].children # <<>>) =>
                  /\ \A k \in 1..Len(nodes[i].children) :
                        nodes[nodes[i].children[k]].scored
                  /\ nodes[i].highest_score =
                        MaxOf([k \in 1..Len(nodes[i].children) |->
                                 nodes[nodes[i].children[k]].highest_score])
        /\ stack = <<>> => \A i \in 1..Len(nodes) : nodes[i].scored

\* the stack is empty and the tree has a node below the root that got its
\* score from its children
C28_Witness ==
    /\ ipc = "loop"
    /\ stack = <<>>
    /\ \E i \in 2..Len(nodes) : nodes[i].scored /\ nodes[i].children # <<>>

(***************************************************************************)
(* The player a score is for, down the search.                             *)
(***************************************************************************)
\* which player of queue q character c is
Role(h, q, c) ==
    IF c = None THEN "none"
    ELSE IF c = h.q[q].p1 THEN "player 1"
    ELSE IF c = h.q[q].p2 THEN "player 2"
    ELSE "none"

RECURSIVE PerspectiveKept(_, _, _, _)
\* in every call get_state_score_player(player, bq) makes for a successor
\* state, at every depth, the player passed is a player of the successor's
\* queue, and the same one as player is of bq
PerspectiveKept(h, player, bq, free) ==
    Bind(is_over(h, bq), LAMBDA o :
    IF o.ret THEN TRUE ELSE
    Bind(get_available_actions(o.h, peek(o.h, bq).ret), LAMBDA actions :
    \A i \in 1..Len(actions) :
        Bind(Successor(o.h, player, bq, bq, free, actions[i]), LAMBDA m :
        /\ m.err = "none"
        /\ Role(m.h, m.ret.bq, m.ret.player) # "none"
        /\ Role(m.h, m.ret.bq, m.ret.player) = Role(o.h, bq, player)
        /\ PerspectiveKept(m.h, m.ret.player, m.ret.bq, free + 1))))

\* C29: the player a successor state is scored for is a player of the
\* successor's own queue and the same player (1 or 2) as the player the
\* parent state is scored for: in get_state_score_player at every depth,
\* for either player at the root, and in the tree of the iterative search
\* for every node and its children, the root standing for the front
\* character of the game queue
C29_Perspective ==
    /\ result.op = "get_state_score_player" =>
          PerspectiveKept(result.pre, result.player, 1, 2)
    /\ ipc = "loop" =>
          /\ Role(heap, nodes[1].battle_queue, nodes[1].current_player)
                = Role(result.pre, 1, peek(result.pre, 1).ret)
          /\ \A i \in 1..Len(nodes) :
                /\ Role(heap, nodes[i].battle_queue,
                        nodes[i].current_player) # "none"
                /\ \A k \in 1..Len(nodes[i].children) :
                      Role(heap, nodes[nodes[i].children[k]].battle_queue,
                           nodes[nodes[i].children[k]].current_player)
                          = Role(heap, nodes[i].battle_queue,
                                 nodes[i].current_player)

\* a node below the root, with children, whose state has the other player
\* at the front than the one the node is scored for
C29_Witness ==
    /\ ipc = "loop"
    /\ \E i \in 2..Len(nodes) :
          /\ nodes[i].children # <<>>
          /\ nodes[i].current_player
                # peek(heap, nodes[i].battle_queue).ret

(***************************************************************************)
(* A state that is not over has a move.                                    *)
(***************************************************************************)
\* C30: for every queue, the game queue and the copies the searches make,
\* if is_over() is false then the character peek() returns has an available
\* action; so the scorer never fails taking max() of an empty list of scores
\* and the iterative search makes no node of a state that is not over with
\* zero children
C30_NonTerminalHasMove ==
    /\ \A q \in DOMAIN heap.q :
          ~is_over(heap, q).ret =>
              get_available_actions(heap, peek(heap, q).ret) # <<>>
    /\ result.op \in {"get_state_score", "get_state_score_player",
                      "select_recursive", "select_iterative"} =>
          result.err # "ValueError"
    /\ ipc = "loop" =>
          \A i \in 1..Len(nodes) :
              (nodes[i].expanded
                  /\ ~is_over(heap, nodes[i].battle_queue).ret) =>
                  nodes[i].children # <<>>

\* a score was computed for a game that is not over and whose queue begins
\* with the ticket of a character that cannot act
C30_Witness ==
    /\ result.op = "get_state_score_player"
    /\ result.err = "none"
    /\ ~is_over(result.pre, 1).ret
    /\ get_available_actions(result.pre, result.pre.q[1].content[1]) = <<>>

(***************************************************************************)
(* The recursive playstyle always moves when it can.                       *)
(***************************************************************************)
\* C32 as stated: whenever the character peek() returns has an available
\* action, the recursive select_attack() returns one of that character's
\* available actions and never 'X', also when no ticket is left and peek()
\* returns player 1, and when the game is already over
C32_NeverNoAction ==
    (result.op = "select_recursive" /\ HasPlayers(result.pre, 1)
        /\ FrontActions(result.pre) # <<>>) =>
        /\ result.err = "none"
        /\ \E i \in 1..Len(FrontActions(result.pre)) :
              result.action = FrontActions(result.pre)[i]

\* C32, for games that are not over: whenever is_over() is false (so that
\* peek() returns the character of a ticket, who has an available action),
\* the recursive select_attack() returns one of that character's available
\* actions and never 'X'
C32_MovesUnlessOver ==
    (result.op = "select_recursive" /\ HasPlayers(result.pre, 1)
        /\ ~is_over(result.pre, 1).ret) =>
        /\ result.err = "none"
        /\ FrontActions(result.pre) # <<>>
        /\ \E i \in 1..Len(FrontActions(result.pre)) :
              result.action = FrontActions(result.pre)[i]

\* the recursive select_attack() returned the special attack in a game that
\* is not over
C32_Witness ==
    /\ result.op = "select_recursive"
    /\ ~is_over(result.pre, 1).ret
    /\ result.action = "S"

(***************************************************************************)
(* The sorcerer machine: a queue built by add() calls for a Sorcerer       *)
(* (character 1) and a Rogue (character 2), and the Sorcerer's special     *)
(* attacks on it.                                                          *)
(***************************************************************************)
\* the SP of the Sorcerer: for one attack, for one special attack or for two
SorcererSP ==
    {SkillCost("Sorcerer", "A"), SkillCost("Sorcerer", "S"),
     2 * SkillCost("Sorcerer", "S")}
\* the HP of the Sorcerer: on the three sides of the default tree's
\* thresholds 50 and 90
SorcererHP == {50, 90, StartHP}
\* the SP of the Rogue: none for an action, some, and more than the default
\* tree's threshold 40
RogueSP == SearchSP("Rogue") \cup {41}

SorcererInit ==
    /\ \E restricted \in BOOLEAN, hp1 \in SorcererHP, sp1 \in SorcererSP,
          sp2 \in RogueSP, tickets \in TicketLists(MaxLen + 2) :
          heap = AddTickets(NewGame(restricted, "Sorcerer", hp1, sp1,
                                    "Rogue", StartHP, sp2), tickets)
    /\ last = Call("init", None, None, heap, None, "none")
    /\ copyOps = 0
    /\ SearchIdle
    /\ TreeIdle

\* the Sorcerer's special_attack(), when it has the SP for it
SorcererSpecial ==
    /\ heap.a[1].sp >= SkillCost("Sorcerer", "S")
    /\ heap' = SorcererSpecial_use(heap, 1, heap.a[1].enemy)
    /\ last' = Call("S", 1, 1, heap, None, "none")
    /\ UNCHANGED <<copyOps, searchVars, treeVars>>

\* the attack() of a Sorcerer that was given the default tree
\* (set_skill_decision_tree(create_default_tree())), when it has the SP
\* for it
SorcererAttack ==
    /\ heap.a[1].sp >= SkillCost("Sorcerer", "A")
    /\ heap' = SorcererAttack_use(heap, 1, heap.a[1].enemy)
    /\ last' = Call("A", 1, 1, heap, None, "none")
    /\ UNCHANGED <<copyOps, searchVars, treeVars>>

SorcererNext ==
    \/ SorcererSpecial
    \/ SorcererAttack

SpecSorcerer == SorcererInit /\ [][SorcererNext]_vars

\* the characters of the tickets of s whose character has an available
\* action in h, each once, in the order of their first tickets
FirstLive(h, s) ==
    LET first == {i \in 1..Len(s) :
                     /\ get_available_actions(h, s[i]) # <<>>
                     /\ \A j \in 1..(i - 1) : s[j] # s[i]}
    IN  [k \in 1..Cardinality(first) |->
            s[CHOOSE i \in first :
                  Cardinality({j \in first : j < i}) = k - 1]]

\* C35: after SorcererSpecial.use on a BattleQueue the tickets are those of
\* the characters that had a live ticket before it, each once, in the order
\* of their first tickets, and one more ticket of the caster; who is live is
\* judged by the SP before the cost is taken, and the cost and the damage
\* are then applied
C35_SorcererSpecial ==
    (last.op = "S" /\ ~heap.q[1].restricted) =>
        /\ Tickets(1) = FirstLive(last.pre, PreTickets(1)) \o <<1>>
        /\ heap.a[1].sp = last.pre.a[1].sp - SkillCost("Sorcerer", "S")
        /\ heap.a[2].hp = apply_damage(last.pre, 2,
                                       SkillDamage("Sorcerer", "S")).a[2].hp
        /\ heap.a[1].hp = last.pre.a[1].hp
        /\ heap.a[2].sp = last.pre.a[2].sp

\* the queue s, r, r, s, r became s, r, s
C35_Witness ==
    /\ last.op = "S"
    /\ ~heap.q[1].restricted
    /\ PreTickets(1) = <<1, 2, 2, 1, 2>>
    /\ Tickets(1) = <<1, 2, 1>>

(***************************************************************************)
(* The decision tree machine: a tree of at most MaxNodes objects, a caster *)
(* and a target, and the calls of get_possible_skills and pick_skill on    *)
(* the objects of the tree.                                                *)
(***************************************************************************)
Conditions == {"f_false", "f_caster_hp_gt_50", "f_target_hp_lt_30"}
CasterHP == {30, 70}
TargetHP == {20, 40}

\* the children of object k in a tree of n objects where object i > 1 is a
\* child of parent[i], in the order of their indices
ChildrenOf(parent, k, n) ==
    LET kids == {i \in 2..n : parent[i] = k}
    IN  [j \in 1..Cardinality(kids) |->
            CHOOSE c \in kids : Cardinality({d \in kids : d < c}) = j - 1]

\* the HP and SP of the caster and the target the default tree is asked
\* with: the two sides of each of its thresholds
DefaultCasterHP == {50, 51, 90, 91}
DefaultTargetHP == {29, 30}
DefaultCasterSP == {20, 21}
DefaultTargetSP == {40, 41}

TreeInit ==
    /\ \/ \E n \in 1..MaxNodes, caster_hp \in CasterHP,
             target_hp \in TargetHP :
             \E parent \in [2..n -> 1..n],
                condition \in [1..n -> Conditions],
                priority \in [1..n -> 1..n] :
                /\ \A i \in 2..n : parent[i] < i
                /\ \A i, j \in 1..n : priority[i] = priority[j] => i = j
                /\ sdt = [nodes |-> [i \in 1..n |->
                                       SkillDecisionTree(SkillNames[i],
                                           condition[i], priority[i],
                                           ChildrenOf(parent, i, n))],
                          caster_hp |-> caster_hp, target_hp |-> target_hp,
                          caster_sp |-> 0, target_sp |-> 0]
       \/ \E caster_hp \in DefaultCasterHP, target_hp \in DefaultTargetHP,
             caster_sp \in DefaultCasterSP, target_sp \in DefaultTargetSP :
             sdt = [nodes |-> create_default_tree.nodes,
                    caster_hp |-> caster_hp, target_hp |-> target_hp,
                    caster_sp |-> caster_sp, target_sp |-> target_sp]
    /\ answer = [op |-> "none"]
    /\ heap = NewGame(FALSE, "Rogue", StartHP, StartSP("Rogue"),
                      "Rogue", StartHP, StartSP("Rogue"))
    /\ last = Call("init", None, None, heap, None, "none")
    /\ copyOps = 0
    /\ SearchIdle

\* node.get_possible_skills(caster, target)
GetPossibleSkills(k) ==
    /\ answer' = [op |-> "get_possible_skills", node |-> k,
                  ret |-> get_possible_skills(sdt, k)]
    /\ UNCHANGED <<sdt, heap, queueVars, searchVars>>

\* node.pick_skill(caster, target)
PickSkill(k) ==
    /\ answer' = [op |-> "pick_skill", node |-> k,
                  skill |-> pick_skill(sdt, k)]
    /\ UNCHANGED <<sdt, heap, queueVars, searchVars>>

TreeNext ==
    \/ \E k \in 1..Len(sdt.nodes) : GetPossibleSkills(k)
    \/ \E k \in 1..Len(sdt.nodes) : PickSkill(k)

SpecTree == TreeInit /\ [][TreeNext]_vars

(***************************************************************************)
(* Properties of the decision tree.                                        *)
(***************************************************************************)
\* C16: for an object with no children, get_possible_skills returns the list
\* of that object alone, whether its condition holds of the caster and the
\* target or not
C16_LeafCandidates ==
    (answer.op = "get_possible_skills"
       /\ sdt.nodes[answer.node].children = <<>>) =>
        answer.ret = <<answer.node>>

RECURSIVE TruePath(_, _, _)
\* object m is object k or a descendant of k below objects whose conditions
\* all hold
TruePath(t, k, m) ==
    \/ k = m
    \/ /\ Condition(t, k)
       /\ \E i \in 1..Len(t.nodes[k].children) :
             TruePath(t, t.nodes[k].children[i], m)

\* C17: get_possible_skills of an object with children returns the list of
\* that object alone if its condition is false, and the concatenation of its
\* children's lists, in their order and without the object itself, if its
\* condition is true; so an object with children is a candidate iff the
\* conditions of all its ancestors hold and its own does not
C17_InternalCandidates ==
    (answer.op = "get_possible_skills"
       /\ sdt.nodes[answer.node].children # <<>>) =>
        /\ IF ~Condition(sdt, answer.node)
           THEN answer.ret = <<answer.node>>
           ELSE /\ answer.ret
                     = SumPossible(sdt, sdt.nodes[answer.node].children)
                /\ \A i \in 1..Len(answer.ret) : answer.ret[i] # answer.node
        /\ \A m \in 1..Len(sdt.nodes) :
              sdt.nodes[m].children # <<>> =>
                  ((\E i \in 1..Len(answer.ret) : answer.ret[i] = m)
                     <=> (TruePath(sdt, answer.node, m) /\ ~Condition(sdt, m)))

\* the candidates of an object whose condition holds include a child that
\* has children itself
C17_Witness ==
    /\ answer.op = "get_possible_skills"
    /\ Condition(sdt, answer.node)
    /\ \E i \in 1..Len(answer.ret) :
          /\ answer.ret[i] # answer.node
          /\ sdt.nodes[answer.ret[i]].children # <<>>

\* C18: pick_skill returns None iff there is no candidate, and otherwise the
\* skill of the candidate whose priority number is the smallest, wherever it
\* is in the list of candidates
C18_PriorityLaw ==
    answer.op = "pick_skill" =>
        LET possible_skills == get_possible_skills(sdt, answer.node)
        IN  /\ answer.skill = NoSkill <=> possible_skills = <<>>
            /\ possible_skills # <<>> =>
                  \E i \in 1..Len(possible_skills) :
                     /\ answer.skill = sdt.nodes[possible_skills[i]].value
                     /\ \A j \in 1..Len(possible_skills) :
                           sdt.nodes[possible_skills[i]].priority
                              <= sdt.nodes[possible_skills[j]].priority

\* pick_skill chose among two candidates the second, whose priority number
\* is the smaller
C18_Witness ==
    /\ answer.op = "pick_skill"
    /\ Len(get_possible_skills(sdt, answer.node)) = 2
    /\ answer.skill
          = sdt.nodes[get_possible_skills(sdt, answer.node)[2]].value

\* C34: on the tree of create_default_tree(), pick_skill never returns None
\* and never picks object 7 or 8; it picks object 5 (MageAttack) if the
\* caster's HP is at most 50, object 1 (RogueAttack) if it is above 50 and at
\* most 90, and above 90 object 2 (MageSpecial) if the target's SP is at
\* most 40, else object 3 (MageAttack) if the caster's SP is at most 20,
\* else object 4 (RogueSpecial) if the target's HP is at least 30, else
\* object 6 (RogueAttack)
C34_DefaultTree ==
    (answer.op = "pick_skill" /\ sdt.nodes = create_default_tree.nodes
        /\ answer.node = create_default_tree.root) =>
        LET possible_skills == get_possible_skills(sdt, answer.node)
            expected == IF sdt.caster_hp <= 50 THEN 5
                        ELSE IF sdt.caster_hp <= 90 THEN 1
                        ELSE IF sdt.target_sp <= 40 THEN 2
                        ELSE IF sdt.caster_sp <= 20 THEN 3
                        ELSE IF sdt.target_hp >= 30 THEN 4
                        ELSE 6
        IN  /\ answer.skill # NoSkill
            /\ possible_skills # <<>>
            /\ PickLoop(sdt, possible_skills, 1, possible_skills[1])
                  = expected
            /\ answer.skill = sdt.nodes[expected].value
            /\ sdt.nodes[expected].value
                  = <<"RogueAttack", "MageSpecial", "MageAttack",
                      "RogueSpecial", "MageAttack", "RogueAttack">>[expected]

\* pick_skill on the default tree went down to object 6: the candidates
\* were the objects 6, 8 and 7
C34_Witness ==
    /\ answer.op = "pick_skill"
    /\ sdt.nodes = create_default_tree.nodes
    /\ answer.node = create_default_tree.root
    /\ get_possible_skills(sdt, answer.node) = <<6, 8, 7>>
    /\ answer.skill = "RogueAttack"

====
